---- MODULE Spec2Model ----
(***************************************************************************)
(* The cluster-operations engine of vcluster: the Engine that runs an      *)
(* ordered list of operations (prepare, execute, finalize), and the        *)
(* AdapterPool dispatcher (sendRequest) that fans one ClusterHTTPRequest   *)
(* out to one worker goroutine per host and collects the results.          *)
(*                                                                         *)
(* Two specifications share the dispatcher's actions:                      *)
(*   Spec      an Engine run; every execute dispatches through sendRequest *)
(*   SpecPool  a caller that dispatches one ClusterHTTPRequest repeatedly, *)
(*             with any request-collection and any pool membership         *)
(* The reductions of a result-collection have specifications of their own: *)
(*   SpecResult  processResult of the read-catalog, load-remote-catalog,   *)
(*               download-config and start-replication operations, applied *)
(*               to any result-collection                                  *)
(*   SpecQuorum  the quorum check, applied to any pair of counts           *)
(*   SpecPoll    execute of the subscription-state polling operation       *)
(*   SpecPrepare prepare of one operation instance, called repeatedly      *)
(*   SpecChain   read-catalog's election, then download-config's prepare   *)
(*   SpecConfig  writeClusterConfig, called repeatedly                     *)
(*   SpecAnalyze CmdScrutinize.Analyze in any environment                  *)
(*   SpecDepot   validateDepotSize on any short size                       *)
(*   SpecRevive  VReviveDB and its two Engine runs                         *)
(*   SpecLoadCatalog  generateReviveVDB, then load-remote-catalog's prepare*)
(*   SpecReplication  start-replication's prepare, called repeatedly       *)
(*   SpecVerb    VCreateDatabase and VDropDatabase around their Engine run *)
(*   SpecEon     ValidateEonOptions on any set of Eon options              *)
(*   SpecScrutinize   VScrutinize from its options to the final tarball    *)
(***************************************************************************)
EXTENDS Integers, Sequences, FiniteSets, TLC

\* ------------------------------------------------------------------ bounds
\* number of hosts of the cluster
NumHosts == 2
\* length of the instruction list given to the Engine
NOps == 3
\* dispatches of the same ClusterHTTPRequest made by the caller of SpecPool
MaxDispatch == 2
\* progress lines the ticker may print (cap of an unbounded counter)
MaxTicks == 1
\* largest versions.global a catalog descriptor carries
MaxGlobal == 2
\* largest count handed to the quorum check
MaxCount == 9
\* the Poller's timeout and poll interval, and the longest time a dispatch
\* takes, in units of time
PollTimeout == 5
PollInterval == 2
MaxDispatchTime == 1
\* how many times prepare is called on one operation instance
MaxPrepares == 2
\* how many times the cluster config is written
MaxWrites == 3
\* the longest depot size checked exhaustively, in characters
MaxLen == 4
\* the largest shard count given to create-db, and the smallest negated
MaxShards == 2

Hosts == 1..NumHosts
Positions == 1..NOps

\* status classes of a HostHTTPResult the dispatcher can be handed
StatusClasses == {"passing", "failure"}

VARIABLES
    \* ---- Engine (one run)
    enginePc,       \* "off" | "prepare" | "execute" | "sending" | "finalize" | "returned"
    opIndex,        \* position (in the instruction list) the run loop is at
    finalizeSet,    \* positions appended to the finalize-set, in order
    finalizeTodo,   \* positions still to finalize, in visiting order
    runError,       \* first prepare/execute error: <<>> or <<phase, position>>
    runResult,      \* what Run returned: "none" | "success" | <<phase, position>>
    warnings,       \* number of finalize errors logged
    callLog,        \* history: every prepare/execute/finalize invocation
    execContext,    \* facts written to the ExecContext (by position)
    ctxSeen,        \* position -> the ExecContext its prepare read
    \* ---- operations' ClusterHTTPRequest, by position of the operation
    RequestCollection,  \* op -> set of hosts keyed in the request-collection
    ResultCollection,   \* op -> [host -> status class or "absent"]
    \* ---- AdapterPool
    connections,    \* hosts that have an adapter in the pool
    ForCli,         \* pool.log.ForCli
    \* ---- one call of sendRequest
    sendPc,         \* "idle" | "build" | "launch" | "collect" | "returned"
    sendOp,         \* the operation whose ClusterHTTPRequest is dispatched
    adapterToRequestCollection, \* sequence of hosts, in map-iteration order
    launched,       \* loop index of the launch loop
    received,       \* loop index of the receive loop
    resultChannel,  \* buffered channel: sequence of [host, status]
    channelClosed,
    worker,         \* host -> "none" | "running" | "sent" | "silent"
    sendErr,        \* <<>> (nil) or <<"not found", host>>
    resultsAtCall,  \* history: the ResultCollection the call was handed
    dispatchCount,  \* calls made by the caller of SpecPool
    \* ---- progressCheck goroutines
    tickerRunning,  \* goroutines whose context is live
    tickerCancelled,\* goroutines whose context is cancelled, not yet returned
    ticksPrinted,
    \* ---- one call of an operation's processResult
    redPc,          \* "off" | "ready" | "done"
    hostResults,    \* the operation's ResultCollection: host -> [kind, global]
    redOp,          \* the operation whose processResult ran, "none" before
    iterOrder,      \* history: the order in which the map was iterated
    redErr,         \* the returned error: <<>> (nil) or the joined errors
    hostsWithLatestCatalog, \* ExecContext.hostsWithLatestCatalog
    nmaVDatabase,   \* ExecContext.nmaVDatabase: <<host it was parsed from>>, or <<>>
    ctxBefore,      \* history: hostsWithLatestCatalog before processResult
    fileContent,    \* *op.fileContent: <<host whose content was stored>>, or <<>>
    vdbPrimary,     \* op.vdb.HostNodeMap[host].IsPrimary
    successPrimaryNodeCount,
    primaryNodeCount,
    quorumResult,   \* what hasQuorum returned: "none" | TRUE | FALSE
    \* ---- one execute of the polling operation
    pollPc,         \* "off" | "execute" | "loop" | "dispatch" | "predicate" | "sleep" | "returned"
    pollClock,      \* time since the Poller started
    pollLog,        \* history: dispatches, predicate calls, sleeps, in order
    pollStateReturn,\* what the Poller returned: <<"none">>, <<>> (nil) or an error
    executeReturn,  \* what execute returned: <<"none">>, <<>> (nil) or an error
    \* ---- prepare of one operation instance
    prepOp,         \* "none" | "read catalog" | "download config"
    initiator,      \* op.initiator
    hostNodeMap,    \* op.vdb.HostNodeMap: host -> node
    opHosts,        \* op.hosts
    opHostsNil,     \* op.hosts is nil
    opRequests,     \* op.clusterHTTPRequest.RequestCollection
    prepLog,        \* history: error and request-collection of each prepare
    \* ---- the cluster config file
    cfgPc,          \* "off" | "on"
    configFile,     \* the config file: <<>> (absent) or its content
    backupFile,     \* the backup file: <<>> (absent) or its content
    cfgLog,         \* history: the files before and after each call, its error
    \* ---- CmdScrutinize.Analyze
    anPc,           \* "off" | "ready" | "done"
    envPort,        \* os.LookupEnv("KUBERNETES_PORT")
    envDB,          \* os.LookupEnv("DATABASE_NAME")
    envCat,         \* os.LookupEnv("CATALOG_PATH")
    honorUserInput, \* *c.sOptions.HonorUserInput
    sOptions,       \* c.sOptions: DBName, CatalogPrefix
    optionsBefore,  \* history: c.sOptions when Analyze was called
    analyzeErr,     \* the error Analyze returned
    \* ---- validateDepotSize
    dsPc,           \* "off" | "ready" | "done"
    depotSize,      \* the size, a sequence of characters
    dsValid,        \* the boolean returned
    dsErr,          \* the error returned
    \* ---- VReviveDB
    revHosts,       \* options.Hosts
    revPc,          \* "off" | "validate" | "produce1" | "run" | "produce2" | "returned"
    revRun,         \* the Engine run in progress: 1 or 2
    revOps,         \* its instruction list
    revIdx,         \* the position of the run loop in it
    revPhase,       \* "prepare" | "execute" | "finalize" | "done"
    revPrepared,    \* the run's finalize-set
    revRunErr,      \* the run's first error
    networkProfiles,\* ExecContext.networkProfiles of the run: the profiled hosts
    revLog,         \* history: every call of the two runs, in order
    revReturn,      \* what VReviveDB returned
    \* ---- the verbs and validators
    lcPc,           \* "off" | "ready" | "generated" | "prepared" | "panic"
    oldVdb,         \* HostNodeMap of the terminated database: address -> node
    reviveHosts,    \* options.Hosts, in user input order
    newVDB,         \* HostNodeMap of the VDB generateReviveVDB returned
    oldHosts,       \* the old addresses generateReviveVDB returned
    lcProfiles,     \* ExecContext.networkProfiles: host -> profile
    awsAuthErr,     \* extractAWSAuthFromParameters fails
    hostRequestBodyMap,\* op.hostRequestBodyMap: host -> request data
    lcSetup,        \* the host lists dispatcher.Setup was called with
    lcRequests,     \* the operation's RequestCollection: host -> request
    lcErr,          \* what prepare returned
    repPc,          \* "off" | "ready"
    nodesInfo,      \* ExecContext.nodesInfo: the nodes with their state and sandbox
    repSandbox,     \* op.sandbox
    repOriginalHosts,\* the host list the operation was made with
    repHosts,       \* op.hosts
    repBodies,      \* op.hostRequestBodyMap
    repRequests,    \* the RequestCollection of the start-replication operation
    repSetup,       \* the host lists dispatcher.setup was called with
    repLog,         \* history: what each prepare returned and left
    vbPc,           \* "off" | "start" | "produced" | "ran" | "returned"
    vbVerb,         \* "create" | "drop"
    vbOptions,      \* the options of the verb and the hosts of its VDB
    vbInstructions, \* the instruction list given to the Engine
    vbRunErr,       \* what clusterOpEngine.Run returned
    vbConfigFile,   \* the cluster config file of the config directory
    vbBackupFile,   \* its backup
    vbConfigBefore, \* history: the config file when the verb was called
    vbConfigCalls,  \* history: the calls that write or remove the config file
    vbReturn,       \* the error the verb returned
    eonPc,          \* "off" | "ready" | "done"
    eonOptions,     \* the Eon options of VCreateDatabaseOptions
    eonErr,         \* what ValidateEonOptions returned
    scrPc,          \* "off" | "start" | "healthy" | "vdb" | "produced" | "returned"
    scrInputHosts,  \* options.Hosts as VScrutinize was called
    scrHosts,       \* options.Hosts
    scrVdbHostList, \* vdb.HostList
    scrVdbHostNodeMap,\* vdb.HostNodeMap: host -> node info
    scrGotVdb,      \* getVDBForScrutinize returned without error
    scrInstrHosts,  \* the hosts the scrutinize instructions were made with
    scrNoSavedInfo, \* getNodeInfoForScrutinize returned host has no saved info
    scrRan,         \* the Engine run of the scrutinize instructions returned
    scrRunErr,      \* what that run returned
    scrTarball,     \* tarAndRemoveDirectory made the final tarball
    scrReturn       \* what VScrutinize returned

engineVars == <<enginePc, opIndex, finalizeSet, finalizeTodo,
                runError, runResult, warnings, callLog, execContext, ctxSeen>>
requestVars == <<RequestCollection, ResultCollection>>
poolVars == <<connections, ForCli>>
sendVars == <<sendPc, sendOp, adapterToRequestCollection, launched, received,
              resultChannel, channelClosed, worker, sendErr, resultsAtCall>>
tickerVars == <<tickerRunning, tickerCancelled, ticksPrinted>>
reduceVars == <<redPc, hostResults, redOp, iterOrder, redErr,
                hostsWithLatestCatalog, nmaVDatabase, ctxBefore, fileContent,
                vdbPrimary, successPrimaryNodeCount, primaryNodeCount, quorumResult>>
\* the state of the operations' own steps, untouched by Engine and dispatcher
pollVars == <<pollPc, pollClock, pollLog, pollStateReturn, executeReturn>>
prepVars == <<prepOp, initiator, hostNodeMap, opHosts, opHostsNil, opRequests,
              prepLog>>
cfgVars == <<cfgPc, configFile, backupFile, cfgLog>>
envVars == <<anPc, envPort, envDB, envCat, honorUserInput, sOptions,
             optionsBefore, analyzeErr>>
depotVars == <<dsPc, depotSize, dsValid, dsErr>>
revVars == <<revHosts, revPc, revRun, revOps, revIdx, revPhase, revPrepared, revRunErr,
             networkProfiles, revLog, revReturn>>
\* the state of the verbs and validators, one group per specification
lcVars == <<lcPc, oldVdb, reviveHosts, newVDB, oldHosts, lcProfiles,
            awsAuthErr, hostRequestBodyMap, lcSetup, lcRequests, lcErr>>
repVars == <<repPc, nodesInfo, repSandbox, repOriginalHosts, repHosts,
             repBodies, repRequests, repSetup, repLog>>
vbVars == <<vbPc, vbVerb, vbOptions, vbInstructions, vbRunErr, vbConfigFile,
            vbBackupFile, vbConfigBefore, vbConfigCalls, vbReturn>>
eonVars == <<eonPc, eonOptions, eonErr>>
scrVars == <<scrPc, scrInputHosts, scrHosts, scrVdbHostList,
             scrVdbHostNodeMap, scrGotVdb, scrInstrHosts, scrNoSavedInfo,
             scrRan, scrRunErr, scrTarball, scrReturn>>
verbVars == <<lcVars, repVars, vbVars, eonVars, scrVars>>
lcOthers == <<engineVars, requestVars, poolVars, sendVars, tickerVars,
              dispatchCount, reduceVars, pollVars, prepVars, cfgVars,
              envVars, depotVars, revVars, repVars, vbVars, eonVars, scrVars>>
repOthers == <<engineVars, requestVars, poolVars, sendVars, tickerVars,
               dispatchCount, reduceVars, pollVars, prepVars, cfgVars,
               envVars, depotVars, revVars, lcVars, vbVars, eonVars, scrVars>>
vbOthers == <<engineVars, requestVars, poolVars, sendVars, tickerVars,
              dispatchCount, reduceVars, pollVars, prepVars, cfgVars,
              envVars, depotVars, revVars, lcVars, repVars, eonVars, scrVars>>
eonOthers == <<engineVars, requestVars, poolVars, sendVars, tickerVars,
               dispatchCount, reduceVars, pollVars, prepVars, cfgVars,
               envVars, depotVars, revVars, lcVars, repVars, vbVars, scrVars>>
scrOthers == <<engineVars, requestVars, poolVars, sendVars, tickerVars,
               dispatchCount, reduceVars, pollVars, prepVars, cfgVars,
               envVars, depotVars, revVars, lcVars, repVars, vbVars, eonVars>>
\* everything the operations checked on their own hold
laterVars == <<prepVars, cfgVars, envVars, depotVars, revVars, verbVars>>
opVars == <<reduceVars, pollVars, laterVars>>
vars == <<engineVars, requestVars, poolVars, sendVars, tickerVars, dispatchCount,
          opVars>>

\* ----------------------------------------------------------------- helpers
Nil == <<>>

NoResults == [h \in Hosts |-> "absent"]

\* keys(result-collection)
ResultKeys(rc) == {h \in Hosts : rc[h] # "absent"}

RECURSIVE Reverse(_)
Reverse(s) == IF s = <<>> THEN <<>> ELSE Append(Reverse(Tail(s)), Head(s))

Range(s) == {s[i] : i \in 1..Len(s)}

\* all orders in which a map's keys can be iterated
Orders(S) == {s \in [1..Cardinality(S) -> S] : Range(s) = S}


\* ------------------------------------------------- AdapterPool.sendRequest
\* mutant: the membership check finds nothing missing
MissingHostsNone(req, conns) == {}

\* the hosts of the request that have no adapter in the pool
MissingHosts(req, conns) == req \ conns

\* ResultCollection[result.host] = result
StoreResult(rc, result) == [rc EXCEPT ![result.host] = result.status]

\* mutant: the result-collection of the earlier dispatch is kept
KeepResultCollection(old) == old

\* make(map[string]HostHTTPResult): the fresh result-collection of a dispatch
FreshResultCollection(old) == NoResults

\* len(adapterToRequestCollection), also the capacity of resultChannel
hostCount == Len(adapterToRequestCollection)

\* mutant: the receive loop also ends at the first failing result
ReceiveLoopDoneOrFailure ==
    \/ received = hostCount
    \/ \E h \in Hosts : ResultCollection[sendOp][h] = "failure"

\* mutant: the receive loop also ends when every worker has finished and
\* the channel is empty
ReceiveLoopDoneOrWorkersFinished ==
    \/ received = hostCount
    \/ /\ resultChannel = <<>>
       /\ \A h \in Hosts : worker[h] # "running"

\* the receive loop is over: hostCount results were taken from the channel
ReceiveLoopDone == received = hostCount

\* mutant: the result channel is one slot short of the host count
channelCapacityOneShort == hostCount - 1

\* make(chan HostHTTPResult, hostCount)
channelCapacity == hostCount

\* the locals of sendRequest before a call and after its return was consumed
NoLocals ==
    /\ adapterToRequestCollection' = <<>>
    /\ launched' = 0
    /\ received' = 0
    /\ resultChannel' = <<>>
    /\ channelClosed' = FALSE
    /\ worker' = [h \in Hosts |-> "none"]
    /\ sendErr' = Nil
    /\ resultsAtCall' = NoResults

\* a call of sendRequest on the ClusterHTTPRequest of operation op: its locals
CallSendRequest(op) ==
    /\ sendPc' = "build"
    /\ sendOp' = op
    /\ adapterToRequestCollection' = <<>>
    /\ launched' = 0
    /\ received' = 0
    /\ resultChannel' = <<>>
    /\ channelClosed' = FALSE
    /\ worker' = [h \in Hosts |-> "none"]
    /\ sendErr' = Nil
    /\ resultsAtCall' = ResultCollection[op]

\* build the adapter-to-request collection; a host that is not in the pool
\* ends the call with an error. Otherwise make the channel and, for the CLI,
\* start the progressCheck goroutine.
SendRequestBuild ==
    /\ sendPc = "build"
    /\ LET req == RequestCollection[sendOp]
           missing == MissingHosts(req, connections)
       IN IF missing # {}
          THEN /\ \E h \in missing : sendErr' = <<"not found", h>>
               /\ sendPc' = "returned"
               /\ UNCHANGED <<adapterToRequestCollection, tickerVars>>
          ELSE /\ \E order \in Orders(req) : adapterToRequestCollection' = order
               /\ sendPc' = "launch"
               /\ tickerRunning' = IF ForCli THEN tickerRunning + 1 ELSE tickerRunning
               /\ UNCHANGED <<sendErr, tickerCancelled, ticksPrinted>>
    /\ UNCHANGED <<sendOp, launched, received, resultChannel, channelClosed,
                   worker, resultsAtCall>>
    /\ UNCHANGED <<engineVars, requestVars, poolVars, dispatchCount>>
    /\ UNCHANGED opVars

\* go ar.adapter.sendRequest(&request, resultChannel), one loop iteration
LaunchWorker ==
    /\ sendPc = "launch"
    /\ launched < hostCount
    /\ LET h == adapterToRequestCollection[launched + 1]
       IN worker' = [worker EXCEPT ![h] = "running"]
    /\ launched' = launched + 1
    /\ UNCHANGED <<sendPc, sendOp, adapterToRequestCollection, received,
                   resultChannel, channelClosed, sendErr, resultsAtCall>>
    /\ UNCHANGED <<engineVars, requestVars, poolVars, tickerVars, dispatchCount>>
    /\ UNCHANGED opVars

\* clusterHTTPRequest.ResultCollection = make(map[string]HostHTTPResult)
MakeResultCollection ==
    /\ sendPc = "launch"
    /\ launched = hostCount
    /\ ResultCollection' = [ResultCollection EXCEPT
                              ![sendOp] = FreshResultCollection(@)]
    /\ sendPc' = "collect"
    /\ UNCHANGED <<sendOp, adapterToRequestCollection, launched, received,
                   resultChannel, channelClosed, worker, sendErr, resultsAtCall>>
    /\ UNCHANGED <<engineVars, RequestCollection, poolVars, tickerVars, dispatchCount>>
    /\ UNCHANGED opVars

\* result, ok := <-resultChannel: blocks while the channel is empty
ReceiveResult ==
    /\ sendPc = "collect"
    /\ ~ReceiveLoopDone
    /\ resultChannel # <<>>
    /\ ResultCollection' = [ResultCollection EXCEPT
                              ![sendOp] = StoreResult(@, Head(resultChannel))]
    /\ resultChannel' = Tail(resultChannel)
    /\ received' = received + 1
    /\ UNCHANGED <<sendPc, sendOp, adapterToRequestCollection, launched,
                   channelClosed, worker, sendErr, resultsAtCall>>
    /\ UNCHANGED <<engineVars, RequestCollection, poolVars, tickerVars, dispatchCount>>
    /\ UNCHANGED opVars

\* close(resultChannel); return nil; the deferred cancelCtx() runs
CloseAndReturn ==
    /\ sendPc = "collect"
    /\ ReceiveLoopDone
    /\ channelClosed' = TRUE
    /\ sendPc' = "returned"
    /\ sendErr' = Nil
    /\ IF ForCli
       THEN /\ tickerRunning' = tickerRunning - 1
            /\ tickerCancelled' = tickerCancelled + 1
       ELSE UNCHANGED <<tickerRunning, tickerCancelled>>
    /\ UNCHANGED <<sendOp, adapterToRequestCollection, launched, received,
                   resultChannel, worker, resultsAtCall, ticksPrinted>>
    /\ UNCHANGED <<engineVars, requestVars, poolVars, dispatchCount>>
    /\ UNCHANGED opVars

\* ------------------------------------------------ per-host worker (Adapter)
\* the worker of host h delivers its one HostHTTPResult, of any status class
WorkerSend(h) ==
    /\ worker[h] = "running"
    /\ Len(resultChannel) < channelCapacity
    /\ ~channelClosed
    /\ \E st \in StatusClasses :
          resultChannel' = Append(resultChannel, [host |-> h, status |-> st])
    /\ worker' = [worker EXCEPT ![h] = "sent"]
    /\ UNCHANGED <<sendPc, sendOp, adapterToRequestCollection, launched,
                   received, channelClosed, sendErr, resultsAtCall>>
    /\ UNCHANGED <<engineVars, requestVars, poolVars, tickerVars, dispatchCount>>
    /\ UNCHANGED opVars

\* the worker of host h finishes without delivering a result
WorkerReturnSilently(h) ==
    /\ worker[h] = "running"
    /\ worker' = [worker EXCEPT ![h] = "silent"]
    /\ UNCHANGED <<sendPc, sendOp, adapterToRequestCollection, launched,
                   received, resultChannel, channelClosed, sendErr, resultsAtCall>>
    /\ UNCHANGED <<engineVars, requestVars, poolVars, tickerVars, dispatchCount>>
    /\ UNCHANGED opVars

\* ------------------------------------------------------------ progressCheck
\* case tickTime := <-ticker.C: one progress line
ProgressTick ==
    /\ tickerRunning + tickerCancelled > 0
    /\ ticksPrinted < MaxTicks
    /\ ticksPrinted' = ticksPrinted + 1
    /\ UNCHANGED <<tickerRunning, tickerCancelled>>
    /\ UNCHANGED <<engineVars, requestVars, poolVars, sendVars, dispatchCount>>
    /\ UNCHANGED opVars

\* case <-ctx.Done(): return
ProgressExit ==
    /\ tickerCancelled > 0
    /\ tickerCancelled' = tickerCancelled - 1
    /\ UNCHANGED <<tickerRunning, ticksPrinted>>
    /\ UNCHANGED <<engineVars, requestVars, poolVars, sendVars, dispatchCount>>
    /\ UNCHANGED opVars

\* sendRequest and its workers
Dispatcher ==
    \/ SendRequestBuild
    \/ LaunchWorker
    \/ MakeResultCollection
    \/ ReceiveResult
    \/ CloseAndReturn
    \/ \E h \in Hosts : WorkerSend(h)
    \/ \E h \in Hosts : WorkerReturnSilently(h)

\* the progressCheck goroutines
Progress ==
    \/ ProgressTick
    \/ ProgressExit

\* ------------------------------------------------- the caller of SpecPool
\* a caller (re)builds the request-collection of its ClusterHTTPRequest and
\* dispatches it
CallerDispatch ==
    /\ enginePc = "off"
    /\ sendPc \in {"idle", "returned"}
    /\ dispatchCount < MaxDispatch
    /\ \E req \in SUBSET Hosts :
          RequestCollection' = [RequestCollection EXCEPT ![1] = req]
    /\ CallSendRequest(1)
    /\ dispatchCount' = dispatchCount + 1
    /\ UNCHANGED <<engineVars, ResultCollection, poolVars, tickerVars>>
    /\ UNCHANGED opVars

InitCommon ==
    /\ RequestCollection = [o \in Positions |-> {}]
    /\ ResultCollection = [o \in Positions |-> NoResults]
    /\ sendPc = "idle"
    /\ sendOp = 1
    /\ adapterToRequestCollection = <<>>
    /\ launched = 0
    /\ received = 0
    /\ resultChannel = <<>>
    /\ channelClosed = FALSE
    /\ worker = [h \in Hosts |-> "none"]
    /\ sendErr = Nil
    /\ resultsAtCall = NoResults
    /\ dispatchCount = 0
    /\ tickerRunning = 0
    /\ tickerCancelled = 0
    /\ ticksPrinted = 0

EngineOff ==
    /\ enginePc = "off"
    /\ opIndex = 1
    /\ finalizeSet = <<>>
    /\ finalizeTodo = <<>>
    /\ runError = Nil
    /\ runResult = "none"
    /\ warnings = 0
    /\ callLog = <<>>
    /\ execContext = {}
    /\ ctxSeen = [p \in Positions |-> {}]

\* no operation instance is being prepared
PrepOff ==
    /\ prepOp = "none"
    /\ initiator = <<>>
    /\ hostNodeMap = [h \in Hosts |-> [inMap |-> FALSE, primary |-> FALSE, up |-> FALSE]]
    /\ opHosts = <<>>
    /\ opHostsNil = TRUE
    /\ opRequests = {}
    /\ prepLog = <<>>

\* the cluster config is not being written
CfgOff ==
    /\ cfgPc = "off"
    /\ configFile = <<>>
    /\ backupFile = <<>>
    /\ cfgLog = <<>>

\* no command is being analyzed
EnvOff ==
    /\ anPc = "off"
    /\ envPort = [found |-> FALSE, value |-> ""]
    /\ envDB = [found |-> FALSE, value |-> ""]
    /\ envCat = [found |-> FALSE, value |-> ""]
    /\ honorUserInput = FALSE
    /\ sOptions = [DBName |-> "", CatalogPrefix |-> ""]
    /\ optionsBefore = [DBName |-> "", CatalogPrefix |-> ""]
    /\ analyzeErr = <<>>

\* no depot size is being validated
DepotOff ==
    /\ dsPc = "off"
    /\ depotSize = <<>>
    /\ dsValid = FALSE
    /\ dsErr = <<>>

\* no database is being revived
ReviveOff ==
    /\ revHosts = {}
    /\ revPc = "off"
    /\ revRun = 0
    /\ revOps = <<>>
    /\ revIdx = 0
    /\ revPhase = "done"
    /\ revPrepared = <<>>
    /\ revRunErr = <<>>
    /\ networkProfiles = {}
    /\ revLog = <<>>
    /\ revReturn = <<"none">>

\* ---- the verbs and validators at rest
\* the revived VDB is not generated and load-remote-catalog not prepared
LoadCatalogOff ==
    /\ lcPc = "off"
    /\ oldVdb = <<>>
    /\ reviveHosts = <<>>
    /\ newVDB = <<>>
    /\ oldHosts = <<>>
    /\ lcProfiles = <<>>
    /\ awsAuthErr = FALSE
    /\ hostRequestBodyMap = <<>>
    /\ lcSetup = <<>>
    /\ lcRequests = <<>>
    /\ lcErr = <<"none">>

\* the start-replication operation does not exist
ReplicationOff ==
    /\ repPc = "off"
    /\ nodesInfo = <<>>
    /\ repSandbox = <<>>
    /\ repOriginalHosts = <<>>
    /\ repHosts = <<>>
    /\ repBodies = <<>>
    /\ repRequests = <<>>
    /\ repSetup = <<>>
    /\ repLog = <<>>

\* no verb is running
VerbIdle ==
    /\ vbPc = "off"
    /\ vbVerb = "none"
    /\ vbOptions = <<>>
    /\ vbInstructions = <<>>
    /\ vbRunErr = <<"none">>
    /\ vbConfigFile = <<>>
    /\ vbBackupFile = <<>>
    /\ vbConfigBefore = <<>>
    /\ vbConfigCalls = <<>>
    /\ vbReturn = <<"none">>

\* ValidateEonOptions
EonOff ==
    /\ eonPc = "off"
    /\ eonOptions = <<>>
    /\ eonErr = Nil

\* VScrutinize
ScrutinizeOff ==
    /\ scrPc = "off"
    /\ scrInputHosts = <<>>
    /\ scrHosts = <<>>
    /\ scrVdbHostList = <<>>
    /\ scrVdbHostNodeMap = <<>>
    /\ scrGotVdb = FALSE
    /\ scrInstrHosts = <<>>
    /\ scrNoSavedInfo = FALSE
    /\ scrRan = FALSE
    /\ scrRunErr = Nil
    /\ scrTarball = FALSE
    /\ scrReturn = Nil

VerbOff ==
    /\ LoadCatalogOff
    /\ ReplicationOff
    /\ VerbIdle
    /\ EonOff
    /\ ScrutinizeOff

\* nothing of the operations checked on their own is running
LaterOffButVerbs == PrepOff /\ CfgOff /\ EnvOff /\ DepotOff /\ ReviveOff
LaterOff == LaterOffButVerbs /\ VerbOff

\* the value of a return that has not happened
NotReturned == <<"none">>

\* no polling operation is executing
PollOff ==
    /\ pollPc = "off"
    /\ pollClock = 0
    /\ pollLog = <<>>
    /\ pollStateReturn = NotReturned
    /\ executeReturn = NotReturned

\* no processResult is being applied
ReduceOff ==
    /\ redPc = "off"
    /\ hostResults = [h \in Hosts |-> [kind |-> "absent", global |-> 0]]
    /\ redOp = "none"
    /\ iterOrder = <<>>
    /\ redErr = Nil
    /\ hostsWithLatestCatalog = <<>>
    /\ nmaVDatabase = <<>>
    /\ ctxBefore = <<>>
    /\ fileContent = <<>>
    /\ vdbPrimary = [h \in Hosts |-> FALSE]
    /\ successPrimaryNodeCount = 0
    /\ primaryNodeCount = 0
    /\ quorumResult = "none"

InitPool ==
    /\ InitCommon
    /\ EngineOff
    /\ ReduceOff
    /\ PollOff
    /\ LaterOff
    /\ ForCli \in BOOLEAN
    /\ connections \in SUBSET Hosts

NextPool ==
    \/ CallerDispatch
    \/ Dispatcher
    \/ Progress

SpecPool == InitPool /\ [][NextPool]_vars


\* ------------------------------------------------------ operation.prepare
\* op.clusterHTTPRequest.RequestCollection[host] = httpRequest, for each host
setupClusterHTTPRequest(req, hosts) == req \cup hosts

\* execContext.dispatcher.setup(op.hosts): every host gets an adapter
setup(conns, hosts) == conns \cup hosts

\* the host lists the operations of a verb are built with: all hosts of the
\* VDB, or the initiator (bootstrap) host alone
TargetHosts == {Hosts, {1}}

\* ------------------------------------------------------------- Engine.Run
LogEntry(phase, pos, outcome) == [phase |-> phase, pos |-> pos, outcome |-> outcome]

\* mutant: the operation is appended whatever its prepare returned
AppendOnPrepareAlways(fs, pos, ok) == Append(fs, pos)

\* steps 1 and 2: the finalize-set after the prepare of position pos returned.
\* An operation enters the finalize-set when its prepare succeeded: on a
\* prepare error its own finalize is skipped (section 4.1).
AppendOnPrepare(fs, pos, ok) == IF ok THEN Append(fs, pos) ELSE fs

\* mutant: the run loop goes on to execute whatever prepare returned
AfterPrepareAlwaysExecute(ok) == "execute"

\* where the run loop goes after a prepare: on to execute, or stop
AfterPrepare(ok) == IF ok THEN "execute" ELSE "finalize"

\* mutant: the operation appended last is not finalized
FinalizeOrderSkipLast(fs) == IF fs = <<>> THEN <<>> ELSE Tail(Reverse(fs))

\* mutant: the finalize-set is visited in list order
FinalizeOrderForward(fs) == fs

\* step 5: the order in which the finalize-set is visited
FinalizeOrder(fs) == Reverse(fs)

\* mutant: a finalize error becomes the result of a run without other error
RunResultWithFinalize(firstError, finalizeErrors) ==
    IF firstError # Nil THEN firstError
    ELSE IF finalizeErrors > 0 THEN <<"finalize", 0>> ELSE "success"

\* step 6: the result of Run
RunResult(firstError, finalizeErrors) ==
    IF firstError = Nil THEN "success" ELSE firstError

\* mutant: every operation is handed a fresh ExecContext
ContextForFresh(pos, ctx) == {}

\* the ExecContext handed to the prepare of position pos
ContextFor(pos, ctx) == ctx

\* the run loop may start the prepare of the next operation
MayPrepare == enginePc = "prepare"

\* the run loop stops and finalization starts
StartFinalize(fs) ==
    /\ enginePc' = "finalize"
    /\ finalizeTodo' = FinalizeOrder(fs)

\* the operation at position pos chooses its hosts, registers them with the
\* dispatcher and builds its request-collection
PrepareRequest(pos) ==
    \E hosts \in TargetHosts :
       /\ connections' = setup(connections, hosts)
       /\ RequestCollection' = [RequestCollection EXCEPT
                                  ![pos] = setupClusterHTTPRequest(@, hosts)]

\* step 1 and 2: prepare of the operation at opIndex
Prepare ==
    /\ MayPrepare
    /\ opIndex \in Positions
    /\ LET pos == opIndex
       IN \E ok \in BOOLEAN :
            /\ finalizeSet' = AppendOnPrepare(finalizeSet, pos, ok)
            /\ ctxSeen' = [ctxSeen EXCEPT ![pos] = ContextFor(pos, execContext)]
            /\ callLog' = Append(callLog,
                   LogEntry("prepare", pos, IF ok THEN "ok" ELSE "error"))
            /\ IF ok THEN PrepareRequest(pos)
                     ELSE UNCHANGED <<connections, RequestCollection>>
            /\ runError' = IF ok THEN runError ELSE <<"prepare", pos>>
            /\ IF AfterPrepare(ok) = "finalize"
               THEN StartFinalize(finalizeSet')
               ELSE /\ enginePc' = AfterPrepare(ok)
                    /\ UNCHANGED finalizeTodo
    /\ UNCHANGED <<opIndex, runResult, warnings, execContext>>
    /\ UNCHANGED <<ResultCollection, ForCli, sendVars, tickerVars, dispatchCount>>
    /\ UNCHANGED opVars

\* step 3: execute is invoked; runExecute dispatches the prepared request
Execute ==
    /\ enginePc = "execute"
    /\ sendPc = "idle"
    /\ callLog' = Append(callLog, LogEntry("execute", opIndex, "running"))
    /\ enginePc' = "sending"
    /\ CallSendRequest(opIndex)
    /\ UNCHANGED <<opIndex, finalizeSet, finalizeTodo, runError,
                   runResult, warnings, execContext, ctxSeen>>
    /\ UNCHANGED <<requestVars, poolVars, tickerVars, dispatchCount>>
    /\ UNCHANGED opVars

\* step 3 and 4: sendRequest returned; processResult reduces the results,
\* writes the ExecContext and decides execute's result. Nothing reads the
\* operation's results after processResult, so the state forgets them (an
\* abstraction: in the program the map stays with the operation).
ExecuteReturn ==
    /\ enginePc = "sending"
    /\ sendPc = "returned"
    /\ sendPc' = "idle"
    /\ LET pos == opIndex
       IN \E ok \in (IF sendErr = Nil THEN BOOLEAN ELSE {FALSE}) :
            /\ execContext' = IF sendErr = Nil THEN execContext \cup {pos}
                                               ELSE execContext
            /\ callLog' = [callLog EXCEPT ![Len(callLog)].outcome =
                                            IF ok THEN "ok" ELSE "error"]
            /\ IF ok
               THEN IF pos < NOps
                    THEN /\ opIndex' = pos + 1
                         /\ enginePc' = "prepare"
                         /\ UNCHANGED <<runError, finalizeTodo>>
                    ELSE /\ StartFinalize(finalizeSet)
                         /\ UNCHANGED <<runError, opIndex>>
               ELSE /\ runError' = <<"execute", pos>>
                    /\ StartFinalize(finalizeSet)
                    /\ UNCHANGED opIndex
    /\ NoLocals
    /\ ResultCollection' = [ResultCollection EXCEPT ![opIndex] = NoResults]
    /\ UNCHANGED <<finalizeSet, runResult, warnings, ctxSeen>>
    /\ UNCHANGED <<sendOp, RequestCollection, poolVars, tickerVars, dispatchCount>>
    /\ UNCHANGED opVars

\* step 5: finalize of the next operation of the finalize-set; an error it
\* returns goes to the warnings log
Finalize ==
    /\ enginePc = "finalize"
    /\ finalizeTodo # <<>>
    /\ callLog' = Append(callLog, LogEntry("finalize", Head(finalizeTodo), "done"))
    /\ finalizeTodo' = Tail(finalizeTodo)
    /\ \E failed \in BOOLEAN :
          warnings' = IF failed THEN warnings + 1 ELSE warnings
    /\ UNCHANGED <<enginePc, opIndex, finalizeSet, runError,
                   runResult, execContext, ctxSeen>>
    /\ UNCHANGED <<requestVars, poolVars, sendVars, tickerVars, dispatchCount>>
    /\ UNCHANGED opVars

\* step 6: Run returns
Return ==
    /\ enginePc = "finalize"
    /\ finalizeTodo = <<>>
    /\ runResult' = RunResult(runError, warnings)
    /\ enginePc' = "returned"
    /\ UNCHANGED <<opIndex, finalizeSet, finalizeTodo, runError,
                   warnings, callLog, execContext, ctxSeen>>
    /\ UNCHANGED <<requestVars, poolVars, sendVars, tickerVars, dispatchCount>>
    /\ UNCHANGED opVars

Init ==
    /\ InitCommon
    /\ enginePc = "prepare"
    /\ opIndex = 1
    /\ finalizeSet = <<>>
    /\ finalizeTodo = <<>>
    /\ runError = Nil
    /\ runResult = "none"
    /\ warnings = 0
    /\ callLog = <<>>
    /\ execContext = {}
    /\ ctxSeen = [p \in Positions |-> {}]
    /\ connections = {}
    /\ ForCli = FALSE
    /\ ReduceOff
    /\ PollOff
    /\ LaterOff

Next ==
    \/ Prepare
    \/ Execute
    \/ ExecuteReturn
    \/ Finalize
    \/ Return
    \/ Dispatcher

Spec == Init /\ [][Next]_vars


\* --------------------------------------------- operations' processResult
\* the integers a descriptor's versions.global can hold
GlobalVersions == (0 - 1)..MaxGlobal

\* what a host's entry of the result-collection can be:
\*   absent        no entry
\*   failure       not passing, err set
\*   unauthorized  not passing, err set, isUnauthorizedRequest
\*   unparsable    passing, the content does not parse
\*   rejected      passing and parsed, but refused by the operation's check
\*                 (versions.global is no integer, status # 0, detail # REPLICATE)
\*   ok            passing, parsed and accepted; global is versions.global
FailedKinds == {"absent", "failure", "unauthorized", "unparsable", "rejected"}

HostResultSet ==
    {[kind |-> k, global |-> 0] : k \in FailedKinds}
        \cup {[kind |-> "ok", global |-> g] : g \in GlobalVersions}

\* the hosts keyed in a result-collection
KeysOf(results) == {h \in Hosts : results[h].kind # "absent"}

\* result.isPassing()
isPassing(r) == r.kind \in {"unparsable", "rejected", "ok"}

\* errors.Join(allErrs, err)
Join(allErrs, err) == Append(allErrs, err)

\* appends the error that no host had a passing result
appendHTTPSFailureError(allErrs) == Join(allErrs, <<"https failure">>)

\* mutant: half of the primaries is enough
hasQuorumAtLeastHalf(success, total) == success >= (total + 1) \div 2

\* the quorum check: strictly more than half of the primary nodes
hasQuorum(success, total) == success > total \div 2

\* ---- read-catalog (catalog-version election)
\* the locals of processResult before its loop
readCatalogLocals ==
    [allErrs |-> <<>>, hostsWithLatestCatalog |-> <<>>,
     maxGlobalVersion |-> 0, latestNmaVDB |-> <<>>]

\* one iteration of the loop over the result-collection
readCatalogStep(host, r, acc) ==
    IF isPassing(r)
    THEN IF r.kind = "unparsable"
         THEN [acc EXCEPT !.allErrs = Join(@, <<"parse", host>>)]
         ELSE IF r.kind = "rejected"
         THEN [acc EXCEPT !.allErrs = Join(@, <<"version", host>>)]
         ELSE IF r.global > acc.maxGlobalVersion
         THEN [acc EXCEPT !.hostsWithLatestCatalog = <<host>>,
                          !.maxGlobalVersion = r.global,
                          !.latestNmaVDB = <<host>>]
         ELSE IF r.global = acc.maxGlobalVersion
         THEN [acc EXCEPT !.hostsWithLatestCatalog = Append(@, host)]
         ELSE acc
    ELSE [acc EXCEPT !.allErrs = Join(@, <<"err", host>>)]

RECURSIVE readCatalogLoop(_, _, _)
readCatalogLoop(order, results, acc) ==
    IF order = <<>> THEN acc
    ELSE readCatalogLoop(Tail(order), results,
                         readCatalogStep(Head(order), results[Head(order)], acc))

\* mutant: the synthetic error is not joined
readCatalogReturnWithoutSynthetic(acc) == acc.allErrs

\* what processResult returns
readCatalogReturn(acc) ==
    IF acc.hostsWithLatestCatalog = <<>>
    THEN Join(acc.allErrs, <<"no latest catalog">>)
    ELSE acc.allErrs

ReadCatalogProcessResult ==
    /\ redPc = "ready"
    /\ \E order \in Orders(KeysOf(hostResults)) :
          LET acc == readCatalogLoop(order, hostResults, readCatalogLocals)
          IN /\ iterOrder' = order
             /\ redErr' = readCatalogReturn(acc)
             /\ IF acc.hostsWithLatestCatalog = <<>>
                THEN UNCHANGED <<hostsWithLatestCatalog, nmaVDatabase>>
                ELSE /\ hostsWithLatestCatalog' = acc.hostsWithLatestCatalog
                     /\ nmaVDatabase' = acc.latestNmaVDB
    /\ redOp' = "read catalog"
    /\ redPc' = "done"
    /\ UNCHANGED <<hostResults, ctxBefore, fileContent, vdbPrimary,
                   successPrimaryNodeCount, primaryNodeCount, quorumResult>>
    /\ UNCHANGED <<engineVars, requestVars, poolVars, sendVars, tickerVars,
                   dispatchCount, pollVars, laterVars>>

\* ---- load-remote-catalog
loadCatalogLocals == [allErrs |-> <<>>, successPrimaryNodeCount |-> 0]

\* mutant: a success counts whatever the node's role
loadCatalogStepAnyNode(host, r, primary, acc) ==
    IF isPassing(r)
    THEN IF r.kind = "unparsable"
         THEN [acc EXCEPT !.allErrs = Join(@, <<"parse", host>>)]
         ELSE IF r.kind = "rejected"
         THEN [acc EXCEPT !.allErrs = Join(@, <<"status", host>>)]
         ELSE [acc EXCEPT !.successPrimaryNodeCount = @ + 1]
    ELSE [acc EXCEPT !.allErrs = Join(@, <<"https", host>>)]

loadCatalogStep(host, r, primary, acc) ==
    IF isPassing(r)
    THEN IF r.kind = "unparsable"
         THEN [acc EXCEPT !.allErrs = Join(@, <<"parse", host>>)]
         ELSE IF r.kind = "rejected"
         THEN [acc EXCEPT !.allErrs = Join(@, <<"status", host>>)]
         ELSE IF primary[host]
         THEN [acc EXCEPT !.successPrimaryNodeCount = @ + 1]
         ELSE acc
    ELSE [acc EXCEPT !.allErrs = Join(@, <<"https", host>>)]

RECURSIVE loadCatalogLoop(_, _, _, _)
loadCatalogLoop(order, results, primary, acc) ==
    IF order = <<>> THEN acc
    ELSE loadCatalogLoop(Tail(order), results, primary,
             loadCatalogStep(Head(order), results[Head(order)], primary, acc))

\* mutant: with quorum, the errors of the failed hosts are returned
loadCatalogReturnAllErrs(acc, total) ==
    IF ~hasQuorum(acc.successPrimaryNodeCount, total)
    THEN appendHTTPSFailureError(
             Join(acc.allErrs, <<"quorum", acc.successPrimaryNodeCount>>))
    ELSE acc.allErrs

\* the quorum check and what processResult returns
loadCatalogReturn(acc, total) ==
    IF ~hasQuorum(acc.successPrimaryNodeCount, total)
    THEN appendHTTPSFailureError(
             Join(acc.allErrs, <<"quorum", acc.successPrimaryNodeCount>>))
    ELSE Nil

\* op.primaryNodeCount, counted by makeNMALoadRemoteCatalogOp
CountPrimaries(primary) == Cardinality({h \in Hosts : primary[h]})

LoadRemoteCatalogProcessResult ==
    /\ redPc = "ready"
    /\ \E order \in Orders(KeysOf(hostResults)) :
          LET acc == loadCatalogLoop(order, hostResults, vdbPrimary,
                                     loadCatalogLocals)
          IN /\ iterOrder' = order
             /\ successPrimaryNodeCount' = acc.successPrimaryNodeCount
             /\ quorumResult' = hasQuorum(acc.successPrimaryNodeCount,
                                          primaryNodeCount)
             /\ redErr' = loadCatalogReturn(acc, primaryNodeCount)
    /\ redOp' = "load remote catalog"
    /\ redPc' = "done"
    /\ UNCHANGED <<hostResults, hostsWithLatestCatalog, nmaVDatabase, ctxBefore,
                   fileContent, vdbPrimary, primaryNodeCount>>
    /\ UNCHANGED <<engineVars, requestVars, poolVars, sendVars, tickerVars,
                   dispatchCount, pollVars, laterVars>>

\* ---- download-config
downloadConfigLocals == [allErrs |-> <<>>, returned |-> FALSE, content |-> <<>>]

downloadConfigStep(host, r, acc) ==
    IF acc.returned THEN acc
    ELSE IF isPassing(r)
    THEN [acc EXCEPT !.returned = TRUE, !.content = <<host>>]
    ELSE [acc EXCEPT !.allErrs = Join(@, <<"err", host>>)]

RECURSIVE downloadConfigLoop(_, _, _)
downloadConfigLoop(order, results, acc) ==
    IF order = <<>> THEN acc
    ELSE downloadConfigLoop(Tail(order), results,
             downloadConfigStep(Head(order), results[Head(order)], acc))

downloadConfigReturn(acc) ==
    IF acc.returned THEN Nil ELSE appendHTTPSFailureError(acc.allErrs)

DownloadConfigProcessResult ==
    /\ redPc = "ready"
    /\ \E order \in Orders(KeysOf(hostResults)) :
          LET acc == downloadConfigLoop(order, hostResults, downloadConfigLocals)
          IN /\ iterOrder' = order
             /\ redErr' = downloadConfigReturn(acc)
             /\ fileContent' = IF acc.returned THEN acc.content ELSE fileContent
    /\ redOp' = "download config"
    /\ redPc' = "done"
    /\ UNCHANGED <<hostResults, hostsWithLatestCatalog, nmaVDatabase, ctxBefore,
                   vdbPrimary, successPrimaryNodeCount, primaryNodeCount,
                   quorumResult>>
    /\ UNCHANGED <<engineVars, requestVars, poolVars, sendVars, tickerVars,
                   dispatchCount, pollVars, laterVars>>

\* ---- start-replication
startReplicationLocals == [allErrs |-> <<>>, returned |-> FALSE]

startReplicationStep(host, r, acc) ==
    IF acc.returned THEN acc
    ELSE IF r.kind = "unauthorized"
    THEN [acc EXCEPT !.returned = TRUE, !.allErrs = <<<<"err", host>>>>]
    ELSE IF ~isPassing(r)
    THEN [acc EXCEPT !.allErrs = Join(@, <<"err", host>>)]
    ELSE IF r.kind = "unparsable"
    THEN [acc EXCEPT !.allErrs = Join(@, <<"parse", host>>)]
    ELSE IF r.kind = "rejected"
    THEN [acc EXCEPT !.allErrs = Join(@, <<"detail", host>>)]
    ELSE acc

RECURSIVE startReplicationLoop(_, _, _)
startReplicationLoop(order, results, acc) ==
    IF order = <<>> THEN acc
    ELSE startReplicationLoop(Tail(order), results,
             startReplicationStep(Head(order), results[Head(order)], acc))

StartReplicationProcessResult ==
    /\ redPc = "ready"
    /\ \E order \in Orders(KeysOf(hostResults)) :
          LET acc == startReplicationLoop(order, hostResults,
                                          startReplicationLocals)
          IN /\ iterOrder' = order
             /\ redErr' = acc.allErrs
    /\ redOp' = "start replication"
    /\ redPc' = "done"
    /\ UNCHANGED <<hostResults, hostsWithLatestCatalog, nmaVDatabase, ctxBefore,
                   fileContent, vdbPrimary, successPrimaryNodeCount,
                   primaryNodeCount, quorumResult>>
    /\ UNCHANGED <<engineVars, requestVars, poolVars, sendVars, tickerVars,
                   dispatchCount, pollVars, laterVars>>

\* Engine and dispatcher at rest
Idle ==
    /\ InitCommon
    /\ EngineOff
    /\ connections = {}
    /\ ForCli = FALSE

\* any result-collection, any primaries in the vdb; the ExecContext is fresh
\* or holds the winner of an earlier election of the run
InitResult ==
    /\ Idle
    /\ PollOff
    /\ LaterOff
    /\ redPc = "ready"
    /\ hostResults \in [Hosts -> HostResultSet]
    /\ vdbPrimary \in [Hosts -> BOOLEAN]
    /\ primaryNodeCount = CountPrimaries(vdbPrimary)
    /\ \/ /\ hostsWithLatestCatalog = <<>>
          /\ nmaVDatabase = <<>>
       \/ \E h \in Hosts : /\ hostsWithLatestCatalog = <<h>>
                           /\ nmaVDatabase = <<h>>
    /\ ctxBefore = hostsWithLatestCatalog
    /\ redOp = "none"
    /\ iterOrder = <<>>
    /\ redErr = Nil
    /\ fileContent = <<>>
    /\ successPrimaryNodeCount = 0
    /\ quorumResult = "none"

NextResult ==
    \/ ReadCatalogProcessResult
    \/ LoadRemoteCatalogProcessResult
    \/ DownloadConfigProcessResult
    \/ StartReplicationProcessResult

SpecResult == InitResult /\ [][NextResult]_vars

\* ---- the quorum check on its own
HasQuorumCall ==
    /\ redPc = "ready"
    /\ quorumResult' = hasQuorum(successPrimaryNodeCount, primaryNodeCount)
    /\ redOp' = "quorum check"
    /\ redPc' = "done"
    /\ UNCHANGED <<hostResults, iterOrder, redErr, hostsWithLatestCatalog,
                   nmaVDatabase, ctxBefore, fileContent, vdbPrimary,
                   successPrimaryNodeCount, primaryNodeCount>>
    /\ UNCHANGED <<engineVars, requestVars, poolVars, sendVars, tickerVars,
                   dispatchCount, pollVars, laterVars>>

\* any pair of non-negative counts
InitQuorum ==
    /\ Idle
    /\ PollOff
    /\ LaterOff
    /\ redPc = "ready"
    /\ successPrimaryNodeCount \in 0..MaxCount
    /\ primaryNodeCount \in 0..MaxCount
    /\ quorumResult = "none"
    /\ hostResults = [h \in Hosts |-> [kind |-> "absent", global |-> 0]]
    /\ redOp = "none"
    /\ iterOrder = <<>>
    /\ redErr = Nil
    /\ hostsWithLatestCatalog = <<>>
    /\ nmaVDatabase = <<>>
    /\ ctxBefore = <<>>
    /\ fileContent = <<>>
    /\ vdbPrimary = [h \in Hosts |-> FALSE]

NextQuorum == HasQuorumCall

SpecQuorum == InitQuorum /\ [][NextQuorum]_vars


\* ------------------------------------------------- polling operation, Poller
\* what a dispatch can leave in a host's entry of the result-collection; for
\* the subscription poll "rejected" is a list with a non-ACTIVE entry and
\* "ok" a list whose entries are all ACTIVE
PollResultSet == {[kind |-> k, global |-> 0] : k \in FailedKinds \cup {"ok"}}

\* ---- httpsPollSubscriptionStateOp.shouldStopPolling
shouldStopPollingLocals == [returned |-> FALSE, done |-> FALSE, err |-> <<>>]

shouldStopPollingStep(host, r, acc) ==
    IF acc.returned THEN acc
    ELSE IF r.kind = "unauthorized"
    THEN [returned |-> TRUE, done |-> TRUE, err |-> <<"password", host>>]
    ELSE IF isPassing(r)
    THEN IF r.kind = "unparsable"
         THEN [returned |-> TRUE, done |-> TRUE, err |-> <<"parse", host>>]
         ELSE IF r.kind = "rejected"
         THEN [returned |-> TRUE, done |-> FALSE, err |-> <<>>]
         ELSE [returned |-> TRUE, done |-> TRUE, err |-> <<>>]
    ELSE acc

RECURSIVE shouldStopPollingLoop(_, _, _)
shouldStopPollingLoop(order, results, acc) ==
    IF order = <<>> THEN acc
    ELSE shouldStopPollingLoop(Tail(order), results,
             shouldStopPollingStep(Head(order), results[Head(order)], acc))

\* (done, err) for one iteration order of the result-collection
shouldStopPolling(order, results) ==
    LET acc == shouldStopPollingLoop(order, results, shouldStopPollingLocals)
    IN [done |-> acc.done, err |-> acc.err]

\* ---- the events of one execute, in order
PollEvent(ev) == [ev |-> ev, done |-> FALSE, err |-> <<>>]
PredicateEvent(out) == [ev |-> "predicate", done |-> out.done, err |-> out.err]

\* mutant: execute goes to the poller without dispatching first
LogAfterRunExecuteSkipped(log) == log

\* execute: op.runExecute dispatches the request once before processResult
LogAfterRunExecute(log) == Append(log, PollEvent("runExecute"))

\* mutant: the poller goes on polling whatever the predicate returned
AfterPredicateNeverDone(done) == "sleep"

\* the poller after the predicate
AfterPredicate(done) == IF done THEN "returned" ELSE "sleep"

\* mutant: the deadline has passed once the timeout is reached
DeadlinePassedAtTimeout(elapsed) == elapsed >= PollTimeout

\* the deadline: time since the first dispatch exceeds the timeout
DeadlinePassed(elapsed) == elapsed > PollTimeout

\* the clock stops counting above the values the deadline distinguishes
MaxClock == PollTimeout + PollInterval + MaxDispatchTime
Elapse(clock, d) == IF clock + d > MaxClock THEN MaxClock ELSE clock + d

\* processResult: the Poller's error is wrapped, nil stays nil
processResultReturn(pollErr) ==
    IF pollErr = Nil THEN Nil
    ELSE <<"not all subscriptions are ACTIVE", pollErr>>

\* the timeout error names the operation
TimeoutError == <<"timeout", "of", "HTTPSPollSubscriptionStateOp">>

PollRest ==
    UNCHANGED <<engineVars, requestVars, poolVars, sendVars, tickerVars,
                dispatchCount, redPc, redOp, iterOrder, redErr,
                hostsWithLatestCatalog, nmaVDatabase, ctxBefore, fileContent,
                vdbPrimary, successPrimaryNodeCount, primaryNodeCount,
                quorumResult, laterVars>>

\* execute: runExecute, then processResult calls the Poller
PollExecute ==
    /\ pollPc = "execute"
    /\ \E results \in [Hosts -> PollResultSet] : hostResults' = results
    /\ pollLog' = LogAfterRunExecute(pollLog)
    /\ pollPc' = "loop"
    /\ UNCHANGED <<pollClock, pollStateReturn, executeReturn>>
    /\ PollRest

\* top of the Poller's loop: the deadline
PollLoop ==
    /\ pollPc = "loop"
    /\ IF DeadlinePassed(pollClock)
       THEN /\ pollStateReturn' = TimeoutError
            /\ executeReturn' = processResultReturn(TimeoutError)
            /\ pollLog' = Append(pollLog, PollEvent("timeout"))
            /\ pollPc' = "returned"
       ELSE /\ pollPc' = "dispatch"
            /\ UNCHANGED <<pollStateReturn, executeReturn, pollLog>>
    /\ UNCHANGED <<hostResults, pollClock>>
    /\ PollRest

\* the round's dispatch of the prepared request; it takes some time
PollDispatch ==
    /\ pollPc = "dispatch"
    /\ \E results \in [Hosts -> PollResultSet] : hostResults' = results
    /\ \E d \in 0..MaxDispatchTime : pollClock' = Elapse(pollClock, d)
    /\ pollLog' = Append(pollLog, PollEvent("dispatch"))
    /\ pollPc' = "predicate"
    /\ UNCHANGED <<pollStateReturn, executeReturn>>
    /\ PollRest

\* the round's call of the predicate
PollPredicate ==
    /\ pollPc = "predicate"
    /\ \E order \in Orders(KeysOf(hostResults)) :
          LET out == shouldStopPolling(order, hostResults)
          IN /\ pollLog' = Append(pollLog, PredicateEvent(out))
             /\ pollPc' = AfterPredicate(out.done)
             /\ IF AfterPredicate(out.done) = "returned"
                THEN /\ pollStateReturn' = out.err
                     /\ executeReturn' = processResultReturn(out.err)
                ELSE UNCHANGED <<pollStateReturn, executeReturn>>
    /\ UNCHANGED <<hostResults, pollClock>>
    /\ PollRest

\* the sleep of one interval between two rounds
PollSleep ==
    /\ pollPc = "sleep"
    /\ pollClock' = Elapse(pollClock, PollInterval)
    /\ pollLog' = Append(pollLog, PollEvent("sleep"))
    /\ pollPc' = "loop"
    /\ UNCHANGED <<hostResults, pollStateReturn, executeReturn>>
    /\ PollRest

InitPoll ==
    /\ Idle
    /\ LaterOff
    /\ ReduceOff
    /\ pollPc = "execute"
    /\ pollClock = 0
    /\ pollLog = <<>>
    /\ pollStateReturn = NotReturned
    /\ executeReturn = NotReturned

NextPoll ==
    \/ PollExecute
    \/ PollLoop
    \/ PollDispatch
    \/ PollPredicate
    \/ PollSleep

\* the Poller is one sequential loop: a step that can be taken is taken
SpecPoll == InitPoll /\ [][NextPoll]_vars /\ WF_vars(NextPoll)


\* ------------------------------------------------------ operations' prepare
\* a node of vdb.HostNodeMap: is the host in the map, is it primary, is it UP
NodeSet == [inMap : BOOLEAN, primary : BOOLEAN, up : BOOLEAN]
HostNodeMaps == {m \in [Hosts -> NodeSet] :
                    \A h \in Hosts : ~m[h].inMap => ~m[h].primary /\ ~m[h].up}
NodeHosts(m) == {h \in Hosts : m[h].inMap}

\* a host list given to a constructor: none or one host
HostLists == {<<>>} \cup {<<h>> : h \in Hosts}

\* vnode.CatalogPath of a host of the VDB
vdbCatalogPath(host) == <<"vdb", host>>
\* getCatalogPath: the catalog directory of a node's catalog path
getCatalogPath(path) == <<"dir">> \o path
\* the catalog path of a host in the descriptor parsed from host d's response
editorCatalogPath(d, host) == <<"editor", d, host>>

\* hostHTTPRequest built by setupClusterHTTPRequest
HostRequest(host, endpoint, path) ==
    [host |-> host, method |-> "GET", endpoint |-> endpoint,
     catalog_path |-> path]

\* ---- nmaReadCatalogEditorOp.prepare
\* the loop over op.initiator: every host is appended to op.hosts, the first
\* one missing from vdb.HostNodeMap ends prepare with an error
RECURSIVE readCatalogInitiatorLoop(_, _, _)
readCatalogInitiatorLoop(init, m, acc) ==
    IF init = <<>> \/ acc.err # Nil THEN acc
    ELSE readCatalogInitiatorLoop(Tail(init), m,
            IF m[Head(init)].inMap
            THEN [hosts |-> Append(acc.hosts, Head(init)), err |-> Nil]
            ELSE [hosts |-> Append(acc.hosts, Head(init)),
                  err |-> <<"cannot find the initiator host", Head(init)>>])

\* op.hosts and the error of prepare; keyOrder is the order of maps.Keys
readCatalogPrepare(init, m, hosts, keyOrder) ==
    IF Len(init) = 0
    THEN [hosts |-> keyOrder, err |-> Nil]
    ELSE readCatalogInitiatorLoop(init, m, [hosts |-> hosts, err |-> Nil])

\* setupClusterHTTPRequest: one request per host of op.hosts
readCatalogRequests(hosts) ==
    {HostRequest(hosts[i], "catalog/database", vdbCatalogPath(hosts[i])) :
         i \in 1..Len(hosts)}

\* ---- nmaDownloadConfigOp.prepare
\* updateCatalogPathMapFromCatalogEditor: the paths of the hosts, from the
\* descriptor; an error when the descriptor has no node for a host
updateCatalogPathMapFromCatalogEditor(hosts, nmaVDB) ==
    IF hosts = <<>> \/ nmaVDB = <<>>
    THEN [err |-> <<"failed to get catalog paths from catalog editor">>,
          paths |-> {}]
    ELSE [err |-> Nil,
          paths |-> {<<hosts[i], getCatalogPath(editorCatalogPath(nmaVDB[1], hosts[i]))>> :
                        i \in 1..Len(hosts)}]

\* the loop over vdb.HostNodeMap: the first primary UP node met, then break
RECURSIVE primaryUpLoop(_, _)
primaryUpLoop(order, m) ==
    IF order = <<>> THEN <<>>
    ELSE IF m[Head(order)].primary /\ m[Head(order)].up
    THEN <<Head(order)>>
    ELSE primaryUpLoop(Tail(order), m)

\* hostsWithLatestCatalog[:1]
latestCatalogHost(latest) == <<latest[1]>>

\* op.hosts, whether it is still nil, the catalog paths and the error of
\* prepare; order is the iteration order of vdb.HostNodeMap
downloadConfigPrepare(m, hostsNil, hosts, latest, nmaVDB, order) ==
    IF NodeHosts(m) = {}
    THEN IF hostsNil /\ Len(latest) = 0
         THEN [hostsNil |-> TRUE, hosts |-> hosts, paths |-> {},
               err |-> <<"could not find at least one host with the latest catalog">>]
         ELSE LET hs == IF hostsNil THEN latestCatalogHost(latest) ELSE hosts
                  upd == updateCatalogPathMapFromCatalogEditor(hs, nmaVDB)
              IN [hostsNil |-> FALSE, hosts |-> hs, paths |-> upd.paths,
                  err |-> upd.err]
    ELSE LET primaryUpHosts == primaryUpLoop(order, m)
         IN IF Len(primaryUpHosts) = 0
            THEN [hostsNil |-> hostsNil, hosts |-> hosts, paths |-> {},
                  err |-> <<"could not find any primary up nodes">>]
            ELSE [hostsNil |-> FALSE, hosts |-> primaryUpHosts,
                  paths |-> {<<primaryUpHosts[1],
                               getCatalogPath(vdbCatalogPath(primaryUpHosts[1]))>>},
                  err |-> Nil]

\* setupClusterHTTPRequest: one request per host of op.hosts
downloadConfigRequests(paths) ==
    {HostRequest(p[1], "config/vertica", p[2]) : p \in paths}

\* setupClusterHTTPRequest assigns RequestCollection[host]: an entry of the
\* same host is replaced, the other entries stay
AssignRequests(collection, requests) ==
    {r \in collection : \A q \in requests : q.host # r.host} \cup requests

\* what one call of prepare left: its error and the request-collection
PrepareRecord(err, collection) == [err |-> err, requests |-> collection]

PrepRest ==
    UNCHANGED <<engineVars, requestVars, poolVars, sendVars, tickerVars,
                dispatchCount, reduceVars, pollVars, cfgVars, envVars,
                depotVars, revVars, verbVars>>

\* prepare of the read-catalog operation
ReadCatalogPrepare ==
    /\ prepOp = "read catalog"
    /\ Len(prepLog) < MaxPrepares
    /\ \E keyOrder \in Orders(NodeHosts(hostNodeMap)) :
          LET p == readCatalogPrepare(initiator, hostNodeMap, opHosts, keyOrder)
              collection == IF p.err = Nil
                            THEN AssignRequests(opRequests, readCatalogRequests(p.hosts))
                            ELSE opRequests
          IN /\ opHosts' = p.hosts
             /\ opHostsNil' = FALSE
             /\ opRequests' = collection
             /\ prepLog' = Append(prepLog, PrepareRecord(p.err, collection))
    /\ UNCHANGED <<prepOp, initiator, hostNodeMap>>
    /\ PrepRest

\* prepare of the download-config operation
DownloadConfigPrepare ==
    /\ prepOp = "download config"
    /\ Len(prepLog) < MaxPrepares
    /\ redPc = "off" \/ (redPc = "done" /\ redOp = "read catalog" /\ redErr = Nil)
    /\ \E order \in Orders(NodeHosts(hostNodeMap)) :
          LET p == downloadConfigPrepare(hostNodeMap, opHostsNil, opHosts,
                                         hostsWithLatestCatalog, nmaVDatabase,
                                         order)
              collection == IF p.err = Nil
                            THEN AssignRequests(opRequests, downloadConfigRequests(p.paths))
                            ELSE opRequests
          IN /\ opHosts' = p.hosts
             /\ opHostsNil' = p.hostsNil
             /\ opRequests' = collection
             /\ prepLog' = Append(prepLog, PrepareRecord(p.err, collection))
    /\ UNCHANGED <<prepOp, initiator, hostNodeMap>>
    /\ PrepRest

\* one operation instance, any VDB, any ExecContext an election can leave
InitPrepare ==
    /\ Idle
    /\ PollOff
    /\ redPc = "off"
    /\ hostResults = [h \in Hosts |-> [kind |-> "absent", global |-> 0]]
    /\ redOp = "none"
    /\ iterOrder = <<>>
    /\ redErr = Nil
    /\ \/ /\ hostsWithLatestCatalog = <<>>
          /\ nmaVDatabase = <<>>
       \/ /\ hostsWithLatestCatalog \in Orders(Hosts)
          /\ nmaVDatabase = <<hostsWithLatestCatalog[1]>>
    /\ ctxBefore = hostsWithLatestCatalog
    /\ fileContent = <<>>
    /\ vdbPrimary = [h \in Hosts |-> FALSE]
    /\ successPrimaryNodeCount = 0
    /\ primaryNodeCount = 0
    /\ quorumResult = "none"
    /\ CfgOff
    /\ EnvOff
    /\ DepotOff
    /\ ReviveOff
    /\ VerbOff
    /\ hostNodeMap \in HostNodeMaps
    /\ opRequests = {}
    /\ prepLog = <<>>
    /\ \/ /\ prepOp = "read catalog"
          /\ initiator \in HostLists
          /\ opHosts = <<>>
          /\ opHostsNil = TRUE
       \/ /\ prepOp = "download config"
          /\ initiator = <<>>
          /\ \/ opHosts = <<>> /\ opHostsNil = TRUE
             \/ opHosts \in HostLists \ {<<>>} /\ opHostsNil = FALSE

NextPrepare ==
    \/ ReadCatalogPrepare
    \/ DownloadConfigPrepare

SpecPrepare == InitPrepare /\ [][NextPrepare]_vars

\* the read-catalog operation, then the download-config operation built with
\* nil hosts and a VDB without nodes
InitChain ==
    /\ Idle
    /\ PollOff
    /\ redPc \in {"off", "ready"}
    /\ hostResults \in [Hosts -> HostResultSet]
    /\ vdbPrimary = [h \in Hosts |-> FALSE]
    /\ primaryNodeCount = 0
    /\ hostsWithLatestCatalog = <<>>
    /\ nmaVDatabase = <<>>
    /\ ctxBefore = <<>>
    /\ redOp = "none"
    /\ iterOrder = <<>>
    /\ redErr = Nil
    /\ fileContent = <<>>
    /\ successPrimaryNodeCount = 0
    /\ quorumResult = "none"
    /\ CfgOff
    /\ EnvOff
    /\ DepotOff
    /\ ReviveOff
    /\ VerbOff
    /\ hostNodeMap = [h \in Hosts |-> [inMap |-> FALSE, primary |-> FALSE, up |-> FALSE]]
    /\ prepOp = "download config"
    /\ initiator = <<>>
    /\ opHosts = <<>>
    /\ opHostsNil = TRUE
    /\ opRequests = {}
    /\ prepLog = <<>>

NextChain ==
    \/ ReadCatalogProcessResult
    \/ DownloadConfigPrepare

SpecChain == InitChain /\ [][NextChain]_vars

\* ------------------------------------------------------- writeClusterConfig
\* a file is absent (<<>>) or holds the content of the n-th call (<<n>>)
NoFile == <<>>
\* what WriteConfig can leave of the file when it fails: the file as it was,
\* or a file that is not a complete config
PartialFile(n) == <<"partial", n>>

\* BackupConfigFile: nothing to do without a config file; otherwise the
\* existing file is copied to the backup, or the copy fails
BackupConfigFile(config, backup, fails) ==
    IF config = NoFile
    THEN [backup |-> backup, err |-> Nil]
    ELSE IF fails
    THEN [backup |-> backup, err |-> <<"backup failed">>]
    ELSE [backup |-> config, err |-> Nil]

\* clusterConfig.WriteConfig: the file gets the new content, or the write fails
WriteConfig(config, n, fails, partial) ==
    IF fails
    THEN [config |-> IF partial THEN PartialFile(n) ELSE config,
          err |-> <<"write failed">>]
    ELSE [config |-> <<n>>, err |-> Nil]

\* which calls of one writeClusterConfig fail
ConfigIO == [pathFails : BOOLEAN, backupFails : BOOLEAN, writeFails : BOOLEAN,
             partial : BOOLEAN]

\* mutant: the error of BackupConfigFile is dropped
writeClusterConfigIgnoringBackupErr(config, backup, n, io) ==
    IF io.pathFails
    THEN [config |-> config, backup |-> backup, err |-> <<"no config path">>]
    ELSE LET b == BackupConfigFile(config, backup, io.backupFails)
             w == WriteConfig(config, n, io.writeFails, io.partial)
         IN [config |-> w.config, backup |-> b.backup, err |-> w.err]

\* writeClusterConfig: GetConfigFilePath, BackupConfigFile, WriteConfig, each
\* error returned at once; io says which of the calls fail this time
writeClusterConfig(config, backup, n, io) ==
    IF io.pathFails
    THEN [config |-> config, backup |-> backup, err |-> <<"no config path">>]
    ELSE LET b == BackupConfigFile(config, backup, io.backupFails)
         IN IF b.err # Nil
            THEN [config |-> config, backup |-> b.backup, err |-> b.err]
            ELSE LET w == WriteConfig(config, n, io.writeFails, io.partial)
                 IN [config |-> w.config, backup |-> b.backup, err |-> w.err]

WriteClusterConfig ==
    /\ cfgPc = "on"
    /\ Len(cfgLog) < MaxWrites
    /\ \E io \in ConfigIO :
          LET r == writeClusterConfig(configFile, backupFile, Len(cfgLog) + 1, io)
          IN /\ configFile' = r.config
             /\ backupFile' = r.backup
             /\ cfgLog' = Append(cfgLog,
                              [configBefore |-> configFile,
                               backupBefore |-> backupFile,
                               backupFailed |-> ~io.pathFails /\ io.backupFails
                                                  /\ configFile # NoFile,
                               config |-> r.config,
                               backup |-> r.backup,
                               err |-> r.err])
    /\ UNCHANGED cfgPc
    /\ UNCHANGED <<engineVars, requestVars, poolVars, sendVars, tickerVars,
                   dispatchCount, reduceVars, pollVars, prepVars, envVars,
                   depotVars, revVars, verbVars>>

\* the config directory before the first call: empty, or with a config file
\* of an earlier run
InitConfig ==
    /\ Idle
    /\ ReduceOff
    /\ PollOff
    /\ PrepOff
    /\ EnvOff
    /\ DepotOff
    /\ ReviveOff
    /\ VerbOff
    /\ cfgPc = "on"
    /\ configFile \in {NoFile, <<0>>}
    /\ backupFile = NoFile
    /\ cfgLog = <<>>

NextConfig == WriteClusterConfig

SpecConfig == InitConfig /\ [][NextConfig]_vars

\* --------------------------------------------------- CmdScrutinize.Analyze
\* os.LookupEnv of a variable: (value, found)
EnvLookups(value) ==
    {[found |-> FALSE, value |-> ""], [found |-> TRUE, value |-> ""],
     [found |-> TRUE, value |-> value]}

\* mutant: a variable set to the empty string is taken as given
EnvMissingNotFound(v) == ~v.found

\* !found || value == ""
EnvMissing(v) == ~v.found \/ v.value = ""

\* found && port != "" && *c.sOptions.HonorUserInput
K8sEnvDetected(port, honor) == port.found /\ port.value # "" /\ honor

\* Analyze after the hosts are resolved: DBName, CatalogPrefix and the error
analyzeEnv(port, db, cat, honor, opts) ==
    IF K8sEnvDetected(port, honor)
    THEN LET dbErr == IF EnvMissing(db)
                      THEN Join(Nil, <<"unable to get database name from environment variable">>)
                      ELSE Nil
             allErrs == IF EnvMissing(cat)
                        THEN Join(dbErr, <<"unable to get catalog path from environment variable">>)
                        ELSE dbErr
         IN [DBName |-> IF EnvMissing(db) THEN opts.DBName ELSE db.value,
             CatalogPrefix |-> IF EnvMissing(cat) THEN opts.CatalogPrefix
                               ELSE cat.value,
             err |-> allErrs]
    ELSE [DBName |-> opts.DBName, CatalogPrefix |-> opts.CatalogPrefix,
          err |-> Nil]

\* Analyze: the hosts are resolved, then the environment is read
Analyze ==
    /\ anPc = "ready"
    /\ \E resolveFails \in BOOLEAN :
          IF resolveFails
          THEN /\ analyzeErr' = <<<<"cannot resolve hosts">>>>
               /\ UNCHANGED sOptions
          ELSE LET r == analyzeEnv(envPort, envDB, envCat, honorUserInput, sOptions)
               IN /\ sOptions' = [DBName |-> r.DBName,
                                  CatalogPrefix |-> r.CatalogPrefix]
                  /\ analyzeErr' = r.err
    /\ optionsBefore' = sOptions
    /\ anPc' = "done"
    /\ UNCHANGED <<envPort, envDB, envCat, honorUserInput>>
    /\ UNCHANGED <<engineVars, requestVars, poolVars, sendVars, tickerVars,
                   dispatchCount, reduceVars, pollVars, prepVars, cfgVars,
                   depotVars, revVars, verbVars>>

\* any environment, any options the flags left
InitAnalyze ==
    /\ Idle
    /\ ReduceOff
    /\ PollOff
    /\ PrepOff
    /\ CfgOff
    /\ DepotOff
    /\ ReviveOff
    /\ VerbOff
    /\ anPc = "ready"
    /\ envPort \in EnvLookups("5433")
    /\ envDB \in EnvLookups("test_db")
    /\ envCat \in EnvLookups("/catalog/path")
    /\ honorUserInput \in BOOLEAN
    /\ sOptions \in [DBName : {"", "cli_db"}, CatalogPrefix : {"", "/cli/path"}]
    /\ optionsBefore = sOptions
    /\ analyzeErr = Nil

NextAnalyze == Analyze

SpecAnalyze == InitAnalyze /\ [][NextAnalyze]_vars

\* --------------------------------------------------------- validateDepotSize
\* a size is a sequence of characters
Digits == {"0", "1", "2", "3", "4", "5", "6", "7", "8", "9"}
Units == {"K", "M", "G", "T"}
\* the characters the sizes checked are made of
SizeAlphabet == {"0", "1", "9", "+", "-", "%", "K", "T", "x", " "}

DigitValue(c) ==
    CASE c = "0" -> 0 [] c = "1" -> 1 [] c = "2" -> 2 [] c = "3" -> 3
      [] c = "4" -> 4 [] c = "5" -> 5 [] c = "6" -> 6 [] c = "7" -> 7
      [] c = "8" -> 8 [] c = "9" -> 9

\* util.MaxDepotSize, util.MinDepotSize
MaxDepotSize == 100
MinDepotSize == 0

\* strings.Contains(size, "%")
ContainsPercent(size) == \E i \in 1..Len(size) : size[i] = "%"

\* strings.TrimSpace
RECURSIVE TrimLeft(_)
TrimLeft(s) == IF s # <<>> /\ Head(s) = " " THEN TrimLeft(Tail(s)) ELSE s
RECURSIVE TrimRight(_)
TrimRight(s) ==
    IF s # <<>> /\ s[Len(s)] = " " THEN TrimRight(SubSeq(s, 1, Len(s) - 1)) ELSE s
TrimSpace(s) == TrimRight(TrimLeft(s))

\* cleanSize := strings.TrimSpace(size)
CleanSize(size) == TrimSpace(size)

\* FindAllStringSubmatch of ^([-+]?\d+)(<one of last>)$: no match, or the one
\* match with its two groups
RegexpMatches(s, last) ==
    IF Len(s) < 2 \/ s[Len(s)] \notin last THEN <<>>
    ELSE LET num == SubSeq(s, 1, Len(s) - 1)
             digits == IF Head(num) \in {"-", "+"} THEN Tail(num) ELSE num
         IN IF digits # <<>> /\ \A i \in 1..Len(digits) : digits[i] \in Digits
            THEN <<[number |-> num, last |-> s[Len(s)]]>>
            ELSE <<>>

\* the digits of a matched number without its leading zeros
RECURSIVE StripZeros(_)
StripZeros(d) == IF Len(d) > 1 /\ Head(d) = "0" THEN StripZeros(Tail(d)) ELSE d

\* numeral a <= numeral b, both without leading zeros
RECURSIVE NumeralLE(_, _)
NumeralLE(a, b) ==
    IF Len(a) # Len(b) THEN Len(a) < Len(b)
    ELSE IF a = <<>> THEN TRUE
    ELSE IF Head(a) # Head(b) THEN DigitValue(Head(a)) < DigitValue(Head(b))
    ELSE NumeralLE(Tail(a), Tail(b))

\* the largest int and the magnitude of the smallest (64 bits)
MaxIntDigits ==
    <<"9", "2", "2", "3", "3", "7", "2", "0", "3", "6", "8", "5", "4", "7",
      "7", "5", "8", "0", "7">>
MinIntDigits ==
    <<"9", "2", "2", "3", "3", "7", "2", "0", "3", "6", "8", "5", "4", "7",
      "7", "5", "8", "0", "8">>

\* values are only compared with 0 and 100: above this they count as large
LargeValue == 10 * MaxDepotSize
RECURSIVE Magnitude(_, _)
Magnitude(d, v) ==
    IF d = <<>> THEN v
    ELSE Magnitude(Tail(d),
                   IF 10 * v + DigitValue(Head(d)) > LargeValue THEN LargeValue
                   ELSE 10 * v + DigitValue(Head(d)))

\* strconv.Atoi of a matched number: out of the range of int it is an error
Atoi(num) ==
    LET neg == Head(num) = "-"
        digits == IF Head(num) \in {"-", "+"} THEN Tail(num) ELSE num
    IN IF NumeralLE(StripZeros(digits), IF neg THEN MinIntDigits ELSE MaxIntDigits)
       THEN [value |-> IF neg THEN 0 - Magnitude(digits, 0) ELSE Magnitude(digits, 0),
             err |-> Nil]
       ELSE [value |-> 0, err |-> <<"value out of range">>]

validateDepotSizePercent(size) ==
    IF ~ContainsPercent(size) THEN [valid |-> TRUE, err |-> Nil]
    ELSE LET matches == RegexpMatches(CleanSize(size), {"%"})
         IN IF Len(matches) # 1
            THEN [valid |-> FALSE, err |-> <<"not a well-formatted percentage">>]
            ELSE LET a == Atoi(matches[1].number)
                 IN IF a.err # Nil
                    THEN [valid |-> FALSE, err |-> <<"not a well-formatted percent">>]
                    ELSE IF a.value > MaxDepotSize
                    THEN [valid |-> FALSE, err |-> <<"greater than 100%">>]
                    ELSE IF a.value < MinDepotSize
                    THEN [valid |-> FALSE, err |-> <<"less than 0%">>]
                    ELSE [valid |-> TRUE, err |-> Nil]

\* mutant: a size of 0 bytes passes
bytesValueNegative(value) == value < 0

\* value <= 0
bytesValueInvalid(value) == value <= 0

validateDepotSizeBytes(size) ==
    IF ContainsPercent(size) THEN [valid |-> TRUE, err |-> Nil]
    ELSE LET matches == RegexpMatches(CleanSize(size), Units)
         IN IF Len(matches) # 1
            THEN [valid |-> FALSE, err |-> <<"not a well-formatted size in bytes">>]
            ELSE LET a == Atoi(matches[1].number)
                 IN IF a.err # Nil
                    THEN [valid |-> FALSE, err |-> <<"not a well-formatted size">>]
                    ELSE IF bytesValueInvalid(a.value)
                    THEN [valid |-> FALSE, err |-> <<"it is <= 0">>]
                    ELSE [valid |-> TRUE, err |-> Nil]

validateDepotSize(size) ==
    LET p == validateDepotSizePercent(size)
    IN IF ~p.valid THEN p
       ELSE LET b == validateDepotSizeBytes(size)
            IN IF ~b.valid THEN b ELSE [valid |-> TRUE, err |-> Nil]

\* every size of up to MaxLen characters
ShortSizes == UNION {[1..n -> SizeAlphabet] : n \in 0..MaxLen}
\* sizes around the range of int
LongSizes ==
    {MaxIntDigits \o <<"K">>, MinIntDigits \o <<"K">>,
     <<"-">> \o MinIntDigits \o <<"%">>, <<"-", "9">> \o MinIntDigits \o <<"K">>,
     <<"0", "0">> \o MaxIntDigits \o <<"T">>, <<"9">> \o MaxIntDigits \o <<"%">>}

ValidateDepotSize ==
    /\ dsPc = "ready"
    /\ LET r == validateDepotSize(depotSize)
       IN /\ dsValid' = r.valid
          /\ dsErr' = r.err
    /\ dsPc' = "done"
    /\ UNCHANGED depotSize
    /\ UNCHANGED <<engineVars, requestVars, poolVars, sendVars, tickerVars,
                   dispatchCount, reduceVars, pollVars, prepVars, cfgVars,
                   envVars, revVars, verbVars>>

InitDepot ==
    /\ Idle
    /\ ReduceOff
    /\ PollOff
    /\ PrepOff
    /\ CfgOff
    /\ EnvOff
    /\ ReviveOff
    /\ VerbOff
    /\ dsPc = "ready"
    /\ depotSize \in ShortSizes \cup LongSizes
    /\ dsValid = FALSE
    /\ dsErr = Nil

NextDepot == ValidateDepotSize

SpecDepot == InitDepot /\ [][NextDepot]_vars

\* ----------------------------------------------------------------- VReviveDB
\* produceReviveDBInstructions1 and produceReviveDBInstructions2
Instructions1 ==
    <<"NMAHealthOp", "NMAVerticaVersionOp", "HTTPCheckRunningDBOp",
      "NMADownloadFileOp">>
Instructions2 ==
    <<"NMAPrepareDirectoriesOp", "NMANetworkProfileOp", "NMALoadRemoteCatalogOp">>

ReviveEvent(run, op, phase, ok) ==
    [run |-> run, op |-> op, phase |-> phase, ok |-> ok]

\* the finalize calls of a run: the prepared operations, last one first
RECURSIVE FinalizeEvents(_, _)
FinalizeEvents(run, prepared) ==
    IF prepared = <<>> THEN <<>>
    ELSE <<ReviveEvent(run, prepared[Len(prepared)], "finalize", TRUE)>>
            \o FinalizeEvents(run, SubSeq(prepared, 1, Len(prepared) - 1))

\* NMALoadRemoteCatalogOp.setupRequestBody: the ExecContext must hold as many
\* network profiles as the operation has hosts
PrepareMayPass(op, hosts, profiles) ==
    op = "NMALoadRemoteCatalogOp" => Cardinality(profiles) = Cardinality(hosts)

\* mutant: the error of the first run is only logged
AfterRunIgnoringError(run, err) == IF run = 1 THEN "produce2" ELSE "returned"

\* VReviveDB after clusterOpEngine.Run(): an error is returned at once, the
\* first run's success leads to the second list of instructions
AfterRun(run, err) == IF err = Nil /\ run = 1 THEN "produce2" ELSE "returned"

ReviveRest ==
    UNCHANGED <<engineVars, requestVars, poolVars, sendVars, tickerVars,
                dispatchCount, reduceVars, pollVars, prepVars, cfgVars,
                envVars, depotVars, verbVars>>

\* options.ValidateAnalyzeOptions()
ReviveValidate ==
    /\ revPc = "validate"
    /\ \E ok \in BOOLEAN :
          /\ revPc' = IF ok THEN "produce1" ELSE "returned"
          /\ revReturn' = IF ok THEN revReturn ELSE <<"options">>
    /\ UNCHANGED <<revHosts, revRun, revOps, revIdx, revPhase, revPrepared,
                   revRunErr, networkProfiles, revLog>>
    /\ ReviveRest

\* produceReviveDBInstructions1 / 2, then MakeClusterOpEngine
ReviveProduce ==
    /\ revPc \in {"produce1", "produce2"}
    /\ LET run == IF revPc = "produce1" THEN 1 ELSE 2
       IN \E ok \in BOOLEAN :
             /\ revLog' = Append(revLog, ReviveEvent(run, "instructions", "produce", ok))
             /\ IF ok
                THEN /\ revPc' = "run"
                     /\ revRun' = run
                     /\ revOps' = IF run = 1 THEN Instructions1 ELSE Instructions2
                     /\ revIdx' = 1
                     /\ revPhase' = "prepare"
                     /\ revPrepared' = <<>>
                     /\ revRunErr' = Nil
                     /\ networkProfiles' = {}
                     /\ UNCHANGED revReturn
                ELSE /\ revPc' = "returned"
                     /\ revReturn' = <<"produce", run>>
                     /\ UNCHANGED <<revRun, revOps, revIdx, revPhase,
                                    revPrepared, revRunErr, networkProfiles>>
    /\ UNCHANGED revHosts
    /\ ReviveRest

\* Engine.Run: prepare of the operation at revIdx
RevivePrepare ==
    /\ revPc = "run"
    /\ revPhase = "prepare"
    /\ LET op == revOps[revIdx]
       IN \E ok \in {b \in BOOLEAN : b => PrepareMayPass(op, revHosts, networkProfiles)} :
             /\ revLog' = Append(revLog, ReviveEvent(revRun, op, "prepare", ok))
             /\ IF ok
                THEN /\ revPrepared' = Append(revPrepared, op)
                     /\ revPhase' = "execute"
                     /\ UNCHANGED revRunErr
                ELSE /\ revRunErr' = <<"prepare", op>>
                     /\ revPhase' = "finalize"
                     /\ UNCHANGED revPrepared
    /\ UNCHANGED <<revHosts, revPc, revRun, revOps, revIdx, networkProfiles,
                   revReturn>>
    /\ ReviveRest

\* Engine.Run: execute of the operation at revIdx
ReviveExecute ==
    /\ revPc = "run"
    /\ revPhase = "execute"
    /\ LET op == revOps[revIdx]
       IN \E ok \in BOOLEAN :
             /\ revLog' = Append(revLog, ReviveEvent(revRun, op, "execute", ok))
             /\ networkProfiles' = IF ok /\ op = "NMANetworkProfileOp"
                                   THEN revHosts
                                   ELSE networkProfiles
             /\ IF ~ok
                THEN /\ revRunErr' = <<"execute", op>>
                     /\ revPhase' = "finalize"
                     /\ UNCHANGED revIdx
                ELSE /\ UNCHANGED revRunErr
                     /\ IF revIdx < Len(revOps)
                        THEN revIdx' = revIdx + 1 /\ revPhase' = "prepare"
                        ELSE revPhase' = "finalize" /\ UNCHANGED revIdx
    /\ UNCHANGED <<revHosts, revPc, revRun, revOps, revPrepared, revReturn>>
    /\ ReviveRest

\* Engine.Run: the finalize calls, then Run returns to VReviveDB
ReviveRunReturn ==
    /\ revPc = "run"
    /\ revPhase = "finalize"
    /\ revLog' = revLog \o FinalizeEvents(revRun, revPrepared)
                    \o <<ReviveEvent(revRun, "Run", "return", revRunErr = Nil)>>
    /\ revPc' = AfterRun(revRun, revRunErr)
    /\ revReturn' = IF AfterRun(revRun, revRunErr) = "returned" THEN revRunErr
                    ELSE revReturn
    /\ revPhase' = "done"
    /\ UNCHANGED <<revHosts, revRun, revOps, revIdx, revPrepared, revRunErr,
                   networkProfiles>>
    /\ ReviveRest

InitRevive ==
    /\ Idle
    /\ ReduceOff
    /\ PollOff
    /\ PrepOff
    /\ CfgOff
    /\ EnvOff
    /\ DepotOff
    /\ VerbOff
    /\ revHosts \in SUBSET Hosts \ {{}}
    /\ revPc = "validate"
    /\ revRun = 0
    /\ revOps = <<>>
    /\ revIdx = 0
    /\ revPhase = "done"
    /\ revPrepared = <<>>
    /\ revRunErr = Nil
    /\ networkProfiles = {}
    /\ revLog = <<>>
    /\ revReturn = NotReturned

NextRevive ==
    \/ ReviveValidate
    \/ ReviveProduce
    \/ RevivePrepare
    \/ ReviveExecute
    \/ ReviveRunReturn

SpecRevive == InitRevive /\ [][NextRevive]_vars

\* each verb or validator is checked with everything else at rest
lcAlone ==
    /\ Idle
    /\ ReduceOff
    /\ PollOff
    /\ LaterOffButVerbs
    /\ ReplicationOff
    /\ VerbIdle
    /\ EonOff
    /\ ScrutinizeOff

repAlone ==
    /\ Idle
    /\ ReduceOff
    /\ PollOff
    /\ LaterOffButVerbs
    /\ LoadCatalogOff
    /\ VerbIdle
    /\ EonOff
    /\ ScrutinizeOff

vbAlone ==
    /\ Idle
    /\ ReduceOff
    /\ PollOff
    /\ LaterOffButVerbs
    /\ LoadCatalogOff
    /\ ReplicationOff
    /\ EonOff
    /\ ScrutinizeOff

eonAlone ==
    /\ Idle
    /\ ReduceOff
    /\ PollOff
    /\ LaterOffButVerbs
    /\ LoadCatalogOff
    /\ ReplicationOff
    /\ VerbIdle
    /\ ScrutinizeOff

scrAlone ==
    /\ Idle
    /\ ReduceOff
    /\ PollOff
    /\ LaterOffButVerbs
    /\ LoadCatalogOff
    /\ ReplicationOff
    /\ VerbIdle
    /\ EonOff

\* ---- end of the rest predicates

\* ------------------------------------- generateReviveVDB, load-remote-catalog
\* addresses of the old and of the new cluster, and the nodes' names in their
\* sort order (v_db_node0001 < v_db_node0002 < ...)
Addresses == 1..(NumHosts + 1)
NodeNames == 1..(NumHosts + 1)

VNode(name, address) == [Name |-> name, Address |-> address]
\* the zero value a Go map returns for a missing key
ZeroNode == VNode(0, 0)

MapPut(m, k, v) == [x \in DOMAIN m \cup {k} |-> IF x = k THEN v ELSE m[x]]
MapGet(m, k, zero) == IF k \in DOMAIN m THEN m[k] ELSE zero

\* the HostNodeMaps of a terminated database: up to NumHosts nodes, each
\* indexed by its address, with distinct names
OldVdbs ==
    {m \in UNION {[S -> NodeNames] : S \in SUBSET Addresses} :
        /\ Cardinality(DOMAIN m) <= NumHosts
        /\ \A a, b \in DOMAIN m : m[a] = m[b] => a = b}

\* the host lists a user can give, duplicates included
ReviveHostLists == UNION {[1..n -> Addresses] : n \in 0..NumHosts}

\* sort.Slice(vNodes, Name <): the nodes of the map, smallest name first
RECURSIVE SortByName(_)
SortByName(m) ==
    IF DOMAIN m = {} THEN <<>>
    ELSE LET a == CHOOSE x \in DOMAIN m : \A y \in DOMAIN m : m[x] <= m[y]
         IN <<VNode(m[a], a)>> \o SortByName([x \in DOMAIN m \ {a} |-> m[x]])

\* mutant: the nodes are taken in the order of their old addresses
RECURSIVE SortByAddress(_)
SortByAddress(m) ==
    IF DOMAIN m = {} THEN <<>>
    ELSE LET a == CHOOSE x \in DOMAIN m : \A y \in DOMAIN m : x <= y
         IN <<VNode(m[a], a)>> \o SortByAddress([x \in DOMAIN m \ {a} |-> m[x]])

\* var vNodes, filled from vdb.HostNodeMap and sorted
sortedNodes(m) == SortByName(m)

\* the loop over newVDB.HostList; vNodes[index] panics past the last node
RECURSIVE generateReviveLoop(_, _, _, _)
generateReviveLoop(hosts, vNodes, index, acc) ==
    IF index > Len(hosts) THEN acc
    ELSE IF index > Len(vNodes) THEN [acc EXCEPT !.panic = TRUE]
    ELSE generateReviveLoop(hosts, vNodes, index + 1,
            [panic |-> FALSE,
             HostNodeMap |-> MapPut(acc.HostNodeMap, hosts[index],
                                    VNode(vNodes[index].Name, hosts[index])),
             oldHosts |-> Append(acc.oldHosts, vNodes[index].Address)])

generateReviveVDB(vdb, hosts) ==
    generateReviveLoop(hosts, sortedNodes(vdb), 1,
                       [panic |-> FALSE, HostNodeMap |-> <<>>, oldHosts |-> <<>>])

\* the profile the network-profile operation stores for a host
NetworkProfile(host) ==
    [Address |-> <<"control", host>>, Broadcast |-> <<"broadcast", host>>]

\* setupRequestBody, first loop: node name -> new, control, broadcast address
RECURSIVE nodeAddressesLoop(_, _, _)
nodeAddressesLoop(order, profiles, vdb) ==
    IF order = <<>> THEN <<>>
    ELSE LET host == order[Len(order)]
             rest == nodeAddressesLoop(SubSeq(order, 1, Len(order) - 1), profiles, vdb)
         IN MapPut(rest, MapGet(vdb, host, ZeroNode).Name,
                   <<host, profiles[host].Address, profiles[host].Broadcast>>)

\* setupRequestBody, second loop: the request data of every host of op.hosts,
\* first host first (a host listed twice keeps its last data)
RECURSIVE requestBodyLoop(_, _, _, _, _)
requestBodyLoop(hosts, index, old, vdb, nodeAddresses) ==
    IF index = 0 THEN <<>>
    ELSE MapPut(requestBodyLoop(hosts, index - 1, old, vdb, nodeAddresses),
                hosts[index],
                [host |-> old[index],
                 node_name |-> MapGet(vdb, hosts[index], ZeroNode).Name,
                 node_addresses |-> nodeAddresses])

\* mutant: the number of network profiles is not checked
profilesMatchAlways(profiles, hosts) == TRUE

\* len(execContext.networkProfiles) != len(op.hosts)
profilesMatch(profiles, hosts) == Cardinality(DOMAIN profiles) = Len(hosts)

\* NMALoadRemoteCatalogOp.setupRequestBody; order is the iteration order of
\* the networkProfiles map
setupRequestBody(profiles, hosts, old, vdb, awsErr, order) ==
    IF ~profilesMatch(profiles, hosts)
    THEN [err |-> <<"networkProfiles">>, bodies |-> <<>>]
    ELSE IF awsErr /\ hosts # <<>>
    THEN [err |-> <<"aws auth">>, bodies |-> <<>>]
    ELSE [err |-> Nil,
          bodies |-> requestBodyLoop(hosts, Len(hosts), old, vdb,
                        nodeAddressesLoop(order, profiles, vdb))]

\* NMALoadRemoteCatalogOp.setupClusterHTTPRequest
reviveRequests(hosts, bodies) ==
    [h \in Range(hosts) |->
        [method |-> "POST", endpoint |-> "catalog/revive", RequestData |-> bodies[h]]]

GenerateReviveVDB ==
    /\ lcPc = "ready"
    /\ LET r == generateReviveVDB(oldVdb, reviveHosts)
       IN /\ lcPc' = IF r.panic THEN "panic" ELSE "generated"
          /\ newVDB' = r.HostNodeMap
          /\ oldHosts' = r.oldHosts
    /\ UNCHANGED <<oldVdb, reviveHosts, lcProfiles, awsAuthErr,
                   hostRequestBodyMap, lcSetup, lcRequests, lcErr>>
    /\ UNCHANGED lcOthers

\* the network-profile operation of the second run executed with success
NetworkProfileExecute ==
    /\ lcPc = "generated"
    /\ lcProfiles = <<>>
    /\ reviveHosts # <<>>
    /\ lcProfiles' = [h \in Range(reviveHosts) |-> NetworkProfile(h)]
    /\ UNCHANGED <<lcPc, oldVdb, reviveHosts, newVDB, oldHosts, awsAuthErr,
                   hostRequestBodyMap, lcSetup, lcRequests, lcErr>>
    /\ UNCHANGED lcOthers

\* NMALoadRemoteCatalogOp.prepare
LoadRemoteCatalogPrepare ==
    /\ lcPc = "generated"
    /\ \E order \in Orders(DOMAIN lcProfiles) :
          LET r == setupRequestBody(lcProfiles, reviveHosts, oldHosts, newVDB,
                                    awsAuthErr, order)
          IN /\ lcErr' = r.err
             /\ hostRequestBodyMap' = r.bodies
             /\ lcSetup' = IF r.err = Nil THEN Append(lcSetup, reviveHosts)
                           ELSE lcSetup
             /\ lcRequests' = IF r.err = Nil
                              THEN reviveRequests(reviveHosts, r.bodies)
                              ELSE lcRequests
    /\ lcPc' = "prepared"
    /\ UNCHANGED <<oldVdb, reviveHosts, newVDB, oldHosts, lcProfiles, awsAuthErr>>
    /\ UNCHANGED lcOthers

InitLoadCatalog ==
    /\ lcAlone
    /\ lcPc = "ready"
    /\ oldVdb \in OldVdbs
    /\ reviveHosts \in ReviveHostLists
    /\ awsAuthErr \in BOOLEAN
    /\ newVDB = <<>>
    /\ oldHosts = <<>>
    /\ lcProfiles = <<>>
    /\ hostRequestBodyMap = <<>>
    /\ lcSetup = <<>>
    /\ lcRequests = <<>>
    /\ lcErr = NotReturned

NextLoadCatalog ==
    \/ GenerateReviveVDB
    \/ NetworkProfileExecute
    \/ LoadRemoteCatalogPrepare

SpecLoadCatalog == InitLoadCatalog /\ [][NextLoadCatalog]_vars

\* --------------------------------------------- httpsStartReplicationOp.prepare
\* the state of a node (section 3 of the specification: UP, DOWN, UNKNOWN) and
\* the sandbox it is in; the empty name is the main cluster
NodeStates == {"UP", "DOWN", "UNKNOWN"}
Sandboxes == {<<>>, <<"sandbox">>}
NodeInfo(address, state, sandbox) ==
    [Address |-> address, State |-> state, Sandbox |-> sandbox]

\* the node lists of an ExecContext: at most one node per address, in the
\* order of the addresses
RECURSIVE NodesInfos(_)
NodesInfos(n) ==
    IF n = 0 THEN {<<>>}
    ELSE LET rest == NodesInfos(n - 1)
         IN rest \cup {Append(l, NodeInfo(n, st, sb)) :
                          l \in rest, st \in NodeStates, sb \in Sandboxes}

\* the host lists a start-replication operation is made with
SourceHostLists == {s \in UNION {[1..n -> Hosts] : n \in 1..NumHosts} :
                       \A i, j \in DOMAIN s : s[i] = s[j] => i = j}

\* node.State != util.NodeDownState && node.Sandbox == op.sandbox
isSourceNode(node, sandbox) == node.State # "DOWN" /\ node.Sandbox = sandbox

\* the loop over execContext.nodesInfo
RECURSIVE sourceHostsLoop(_, _)
sourceHostsLoop(nodes, sandbox) ==
    IF nodes = <<>> THEN <<>>
    ELSE (IF isSourceNode(Head(nodes), sandbox) THEN <<Head(nodes).Address>>
          ELSE <<>>) \o sourceHostsLoop(Tail(nodes), sandbox)

\* util.SliceCommon: the hosts both lists hold, in an order the caller cannot
\* rely on
SliceCommon(m, n) == Orders(Range(m) \cap Range(n))

replicateRequest(host) ==
    [host |-> host, method |-> "POST", endpoint |-> "replicate/start"]

\* prepare, for one result of SliceCommon
startReplicationPrepare(nodes, sandbox, hosts, requests, common) ==
    IF Len(nodes) = 0
    THEN [err |-> <<"cannot find any hosts in OpEngineExecContext">>,
          hosts |-> hosts, requests |-> requests, setup |-> <<>>]
    ELSE IF Len(common) = 0
    THEN [err |-> IF sandbox = <<>>
                  THEN <<"cannot find any up hosts from source database">>
                  ELSE <<"cannot find any up hosts in the sandbox">>,
          hosts |-> hosts, requests |-> requests, setup |-> <<>>]
    ELSE [err |-> Nil,
          hosts |-> <<common[1]>>,
          requests |-> AssignRequests(requests, {replicateRequest(common[1])}),
          setup |-> <<<<common[1]>>>>]

StartReplicationPrepare ==
    /\ repPc = "ready"
    /\ Len(repLog) < MaxPrepares
    /\ \E common \in SliceCommon(repHosts, sourceHostsLoop(nodesInfo, repSandbox)) :
          LET r == startReplicationPrepare(nodesInfo, repSandbox, repHosts,
                                           repRequests, common)
          IN /\ repHosts' = r.hosts
             /\ repRequests' = r.requests
             /\ repBodies' = IF r.err = Nil THEN {r.hosts[1]} ELSE repBodies
             /\ repSetup' = repSetup \o r.setup
             /\ repLog' = Append(repLog, [err |-> r.err, hosts |-> r.hosts,
                                          requestsBefore |-> repRequests,
                                          requests |-> r.requests])
    /\ UNCHANGED <<repPc, nodesInfo, repSandbox, repOriginalHosts>>
    /\ UNCHANGED repOthers

InitReplication ==
    /\ repAlone
    /\ repPc = "ready"
    /\ nodesInfo \in NodesInfos(NumHosts)
    /\ repSandbox \in Sandboxes
    /\ repOriginalHosts \in SourceHostLists
    /\ repHosts = repOriginalHosts
    /\ repBodies = {}
    /\ repRequests = {}
    /\ repSetup = <<>>
    /\ repLog = <<>>

NextReplication == StartReplicationPrepare

SpecReplication == InitReplication /\ [][NextReplication]_vars

\* ------------------------------------------- VCreateDatabase, VDropDatabase
\* const ksafetyThreshold
ksafetyThreshold == 3

\* vdb.HostList of n hosts, the hosts among them that are the local host, and
\* the options the composition reads
VerbHostLists == {[i \in 1..n |-> i] : n \in 1..(NumHosts + 1)}
VerbOptions ==
    {o \in [HostList : VerbHostLists, localHosts : SUBSET (1..(NumHosts + 1)),
            SkipStartupPolling : BOOLEAN, UseDepot : BOOLEAN,
            SkipPackageInstall : BOOLEAN, IsEon : BOOLEAN, makeFails : BOOLEAN] :
        o.localHosts \subseteq Range(o.HostList)}

Instruction(op, hosts) == [op |-> op, hosts |-> hosts]

\* getInitiator: the first local host of the list, else hosts[0]
RECURSIVE getInitiator(_, _, _)
getInitiator(hosts, locals, first) ==
    IF hosts = <<>> THEN first
    ELSE IF Head(hosts) \in locals THEN Head(hosts)
    ELSE getInitiator(Tail(hosts), locals, first)

\* util.SliceDiff: the hosts of m that are not in n, in the order of m
SliceDiff(m, n) == SelectSeq(m, LAMBDA h : h \notin Range(n))

\* produceTransferConfigOps
transferConfigOps(bootstrapHost) ==
    <<Instruction("NMADownloadVerticaConfigOp", bootstrapHost),
      Instruction("NMAUploadVerticaConfigOp", bootstrapHost),
      Instruction("NMADownloadSpreadConfigOp", bootstrapHost),
      Instruction("NMAUploadSpreadConfigOp", bootstrapHost)>>

\* mutant: the nodes are created and started on a single host too
moreThanOneHostAlways(hosts) == TRUE

\* len(hosts) > 1
moreThanOneHost(hosts) == Len(hosts) > 1

produceBasicCreateDBInstructions(o) ==
    LET hosts == o.HostList
        bootstrapHost == <<getInitiator(hosts, o.localHosts, hosts[1])>>
    IN <<Instruction("NMAHealthOp", hosts),
         Instruction("NMAVerticaVersionOp", hosts),
         Instruction("HTTPCheckDBRunningOp", hosts),
         Instruction("NMAPrepareDirectoriesOp", hosts),
         Instruction("NMANetworkProfileOp", hosts),
         Instruction("NMABootstrapCatalogOp", bootstrapHost),
         Instruction("NMAFetchVdbFromCatalogEditorOp", bootstrapHost),
         Instruction("NMAStartNodeOp", bootstrapHost),
         Instruction("HTTPSPollNodeStateOp", bootstrapHost)>>
       \o (IF moreThanOneHost(hosts)
           THEN <<Instruction("HTTPCreateNodeOp", bootstrapHost)>> ELSE <<>>)
       \o <<Instruction("HTTPSReloadSpreadOp", bootstrapHost)>>
       \o (IF moreThanOneHost(hosts)
           THEN transferConfigOps(bootstrapHost)
                \o <<Instruction("NMAFetchVdbFromCatalogEditorOp", bootstrapHost),
                     Instruction("NMAStartNodeOp", SliceDiff(hosts, bootstrapHost))>>
           ELSE <<>>)

produceAdditionalCreateDBInstructions(o) ==
    LET hosts == o.HostList
        bootstrapHost == <<getInitiator(hosts, o.localHosts, hosts[1])>>
    IN (IF ~o.SkipStartupPolling
        THEN <<Instruction("HTTPSPollNodeStateOp", hosts)>> ELSE <<>>)
       \o (IF o.UseDepot
           THEN <<Instruction("HTTPSCreateDepotOp", bootstrapHost)>> ELSE <<>>)
       \o (IF Len(hosts) >= ksafetyThreshold
           THEN <<Instruction("HTTPSMarkDesignKsafeOp", bootstrapHost)>> ELSE <<>>)
       \o (IF ~o.SkipPackageInstall
           THEN <<Instruction("HTTPSInstallPackagesOp", bootstrapHost)>> ELSE <<>>)
       \o (IF o.IsEon
           THEN <<Instruction("HTTPSyncCatalogOp", bootstrapHost)>> ELSE <<>>)

produceDropDBInstructions(o) ==
    <<Instruction("NMAHealthOp", o.HostList),
      Instruction("NMAVerticaVersionOp", o.HostList),
      Instruction("HTTPCheckDBRunningOp", o.HostList),
      Instruction("NMADeleteDirectoriesOp", o.HostList)>>

\* RemoveConfigFile: the file is removed, or the removal fails
RemoveConfigFile(config, fails) ==
    IF fails THEN [config |-> config, err |-> <<"remove failed">>]
    ELSE [config |-> NoFile, err |-> Nil]

\* mutant: the config file is written whatever the run returned
configTouchedAlways(runErr) == TRUE

\* runError != nil returns before the config file is touched
configTouched(runErr) == runErr = Nil

\* what the verb returns: the run's error; an error of the config file is a
\* warning
verbResult(runErr, configErr) == runErr

\* the instructions are produced; drop-db first reads the config file
VerbProduce ==
    /\ vbPc = "start"
    /\ LET failed == vbOptions.makeFails
                        \/ (vbVerb = "drop" /\ vbConfigFile = NoFile)
       IN /\ vbPc' = IF failed THEN "returned" ELSE "produced"
          /\ vbReturn' = IF failed THEN <<"produce">> ELSE vbReturn
          /\ vbInstructions' =
                IF failed THEN <<>>
                ELSE IF vbVerb = "create"
                THEN produceBasicCreateDBInstructions(vbOptions)
                        \o produceAdditionalCreateDBInstructions(vbOptions)
                ELSE produceDropDBInstructions(vbOptions)
    /\ UNCHANGED <<vbVerb, vbOptions, vbRunErr, vbConfigFile, vbBackupFile,
                   vbConfigBefore, vbConfigCalls>>
    /\ UNCHANGED vbOthers

\* clusterOpEngine.Run()
VerbRun ==
    /\ vbPc = "produced"
    /\ vbRunErr' \in {Nil, <<"run">>}
    /\ vbPc' = "ran"
    /\ UNCHANGED <<vbVerb, vbOptions, vbInstructions, vbConfigFile, vbBackupFile,
                   vbConfigBefore, vbConfigCalls, vbReturn>>
    /\ UNCHANGED vbOthers

\* after the run: the error is returned, or the config file is written
\* (create-db) or removed (drop-db)
VerbFinish ==
    /\ vbPc = "ran"
    /\ vbPc' = "returned"
    /\ IF ~configTouched(vbRunErr)
       THEN /\ vbReturn' = vbRunErr
            /\ UNCHANGED <<vbConfigFile, vbBackupFile, vbConfigCalls>>
       ELSE IF vbVerb = "create"
       THEN \E io \in ConfigIO :
               LET r == writeClusterConfig(vbConfigFile, vbBackupFile, 1, io)
               IN /\ vbConfigFile' = r.config
                  /\ vbBackupFile' = r.backup
                  /\ vbConfigCalls' = Append(vbConfigCalls, <<"write", r.err>>)
                  /\ vbReturn' = verbResult(vbRunErr, r.err)
       ELSE \E fails \in BOOLEAN :
               LET r == RemoveConfigFile(vbConfigFile, fails)
               IN /\ vbConfigFile' = r.config
                  /\ vbConfigCalls' = Append(vbConfigCalls, <<"remove", r.err>>)
                  /\ vbReturn' = verbResult(vbRunErr, r.err)
                  /\ UNCHANGED vbBackupFile
    /\ UNCHANGED <<vbVerb, vbOptions, vbInstructions, vbRunErr, vbConfigBefore>>
    /\ UNCHANGED vbOthers

InitVerb ==
    /\ vbAlone
    /\ vbPc = "start"
    /\ vbVerb \in {"create", "drop"}
    /\ vbOptions \in VerbOptions
    /\ vbInstructions = <<>>
    /\ vbRunErr = NotReturned
    /\ vbConfigFile \in {NoFile, <<0>>}
    /\ vbBackupFile = NoFile
    /\ vbConfigBefore = vbConfigFile
    /\ vbConfigCalls = <<>>
    /\ vbReturn = NotReturned

NextVerb ==
    \/ VerbProduce
    \/ VerbRun
    \/ VerbFinish

SpecVerb == InitVerb /\ [][NextVerb]_vars


\* ------------------------------------------------------- ValidateEonOptions
\* the option values checked: a string is empty or not, the shard count is any
\* int, the depot size is empty, valid or invalid
CommunalLocations == {"", "s3://vertica/db"}
DepotPrefixes == {"", "/depot"}
ShardCounts == (0 - MaxShards)..MaxShards
EonDepotSizes == {<<>>, <<"1", "K">>, <<"9", "%">>, <<"0", "K">>, <<"x">>}
EonOptions ==
    [CommunalStorageLocation : CommunalLocations,
     DepotPrefix : DepotPrefixes,
     ShardCount : ShardCounts,
     GetAwsCredentialsFromEnv : BOOLEAN,
     DepotSize : EonDepotSizes]

\* *opt.ShardCount == 0
shardCountMissing(count) == count = 0

ValidateEonOptions(opt) ==
    IF opt.CommunalStorageLocation # "" /\ opt.DepotPrefix = ""
    THEN <<"must specify a depot path with commual storage location">>
    ELSE IF opt.CommunalStorageLocation # ""
            /\ shardCountMissing(opt.ShardCount)
    THEN <<"must specify a shard count greater than 0">>
    ELSE IF opt.DepotPrefix # "" /\ opt.CommunalStorageLocation = ""
    THEN <<"communal storage location cannot be empty">>
    ELSE IF opt.GetAwsCredentialsFromEnv /\ opt.CommunalStorageLocation = ""
    THEN <<"AWS credentials are only used in Eon mode">>
    ELSE IF opt.DepotSize # <<>> /\ opt.DepotPrefix = ""
    THEN <<"when depot size is given, depot path cannot be empty">>
    ELSE IF opt.DepotSize # <<>> /\ ~validateDepotSize(opt.DepotSize).valid
    THEN validateDepotSize(opt.DepotSize).err
    ELSE Nil

ValidateEon ==
    /\ eonPc = "ready"
    /\ eonErr' = ValidateEonOptions(eonOptions)
    /\ eonPc' = "done"
    /\ UNCHANGED eonOptions
    /\ UNCHANGED eonOthers

InitEon ==
    /\ eonAlone
    /\ eonPc = "ready"
    /\ eonOptions \in EonOptions
    /\ eonErr = Nil

NextEon == ValidateEon

SpecEon == InitEon /\ [][NextEon]_vars


\* ---------------------------------------------------------------- VScrutinize
\* options.Hosts: the resolved hosts, none of them twice
ScrutinizeHostLists ==
    {s \in UNION {[1..n -> Hosts] : n \in 1..NumHosts} :
        \A i, j \in 1..Len(s) : s[i] = s[j] => i = j}
\* the node info a host returned: complete, without a node name, or with a
\* catalog path that is not absolute
NodeInfoKinds == {"good", "empty name", "bad path"}
\* a nil *VCoordinationNode, what vdb.HostNodeMap holds for a missing host
NilNodeInfo == "nil"

\* mutant: options.Hosts stays what the user gave
hostsForLaterOpsKept(optionHosts, vdbHostList) == optionHosts

\* options.Hosts = vdb.HostList
hostsForLaterOps(optionHosts, vdbHostList) == vdbHostList

\* the loop of getNodeInfoForScrutinize from hosts[index] on: the first host
\* without node info ends it, an invalid name or path is collected
RECURSIVE nodeInfoLoop(_, _, _, _)
nodeInfoLoop(hosts, nodeMap, index, invalid) ==
    IF index > Len(hosts)
    THEN IF invalid = {} THEN Nil ELSE <<"invalid node info", invalid>>
    ELSE LET nodeInfo == MapGet(nodeMap, hosts[index], NilNodeInfo)
         IN IF nodeInfo = NilNodeInfo
            THEN <<"has no saved info", {hosts[index]}>>
            ELSE nodeInfoLoop(hosts, nodeMap, index + 1,
                              IF nodeInfo = "good" THEN invalid
                              ELSE invalid \cup {hosts[index]})

\* the error getNodeInfoForScrutinize returns
getNodeInfoForScrutinize(hosts, nodeMap) ==
    nodeInfoLoop(hosts, nodeMap, 1, {})

ScrutinizeReturn(err) ==
    /\ scrPc' = "returned"
    /\ scrReturn' = err

\* getVDBForScrutinize, first run: the hosts with a healthy NMA become
\* vdb.HostList
GetHealthyNodes ==
    /\ scrPc = "start"
    /\ \E failed \in BOOLEAN, healthy \in SUBSET Range(scrHosts) :
          IF failed
          THEN /\ ScrutinizeReturn(<<"get healthy nodes">>)
               /\ UNCHANGED scrVdbHostList
          ELSE /\ scrPc' = "healthy"
               /\ scrVdbHostList' =
                     SelectSeq(scrHosts, LAMBDA h : h \in healthy)
               /\ UNCHANGED scrReturn
    /\ UNCHANGED <<scrInputHosts, scrHosts, scrVdbHostNodeMap, scrGotVdb,
                   scrInstrHosts, scrNoSavedInfo, scrRan, scrRunErr,
                   scrTarball>>
    /\ UNCHANGED scrOthers

\* getVDBForScrutinize, second run and what follows it: the hosts that
\* returned node info are the keys of vdb.HostNodeMap, vdb.HostList is
\* rebuilt from the keys in the order the map is iterated, and VScrutinize
\* takes it for options.Hosts
GetNodesInfo ==
    /\ scrPc = "healthy"
    /\ \E failed \in BOOLEAN, answered \in SUBSET Range(scrVdbHostList) :
       \E info \in [answered -> NodeInfoKinds], order \in Orders(answered) :
          IF failed
          THEN /\ ScrutinizeReturn(<<"get nodes info">>)
               /\ UNCHANGED <<scrVdbHostNodeMap, scrVdbHostList, scrGotVdb,
                              scrHosts>>
          ELSE /\ scrVdbHostNodeMap' = info
               /\ scrVdbHostList' = order
               /\ IF Len(order) = 0
                  THEN /\ ScrutinizeReturn(<<"no hosts returned node info">>)
                       /\ UNCHANGED <<scrGotVdb, scrHosts>>
                  ELSE /\ scrPc' = "vdb"
                       /\ scrGotVdb' = TRUE
                       /\ scrHosts' = hostsForLaterOps(scrHosts, order)
                       /\ UNCHANGED scrReturn
    /\ UNCHANGED <<scrInputHosts, scrInstrHosts, scrNoSavedInfo, scrRan,
                   scrRunErr, scrTarball>>
    /\ UNCHANGED scrOthers

\* produceScrutinizeInstructions: every operation is made with options.Hosts
ProduceScrutinizeInstructions ==
    /\ scrPc = "vdb"
    /\ LET err == getNodeInfoForScrutinize(scrHosts, scrVdbHostNodeMap)
       IN IF err # Nil
          THEN /\ ScrutinizeReturn(err)
               /\ scrNoSavedInfo' = (err[1] = "has no saved info")
               /\ UNCHANGED scrInstrHosts
          ELSE /\ scrPc' = "produced"
               /\ scrInstrHosts' = scrHosts
               /\ UNCHANGED <<scrNoSavedInfo, scrReturn>>
    /\ UNCHANGED <<scrInputHosts, scrHosts, scrVdbHostList, scrVdbHostNodeMap,
                   scrGotVdb, scrRan, scrRunErr, scrTarball>>
    /\ UNCHANGED scrOthers

\* the run of the instructions and, when it succeeded, the final tarball
RunScrutinize ==
    /\ scrPc = "produced"
    /\ \E err \in {Nil, <<"run">>}, tarFails \in BOOLEAN :
          /\ scrRan' = TRUE
          /\ scrRunErr' = err
          /\ IF err # Nil
             THEN /\ ScrutinizeReturn(err)
                  /\ UNCHANGED scrTarball
             ELSE /\ scrTarball' = ~tarFails
                  /\ ScrutinizeReturn(IF tarFails THEN <<"tar">> ELSE Nil)
    /\ UNCHANGED <<scrInputHosts, scrHosts, scrVdbHostList, scrVdbHostNodeMap,
                   scrGotVdb, scrInstrHosts, scrNoSavedInfo>>
    /\ UNCHANGED scrOthers

InitScrutinize ==
    /\ scrAlone
    /\ scrPc = "start"
    /\ scrInputHosts \in ScrutinizeHostLists
    /\ scrHosts = scrInputHosts
    /\ scrVdbHostList = <<>>
    /\ scrVdbHostNodeMap = <<>>
    /\ scrGotVdb = FALSE
    /\ scrInstrHosts = <<>>
    /\ scrNoSavedInfo = FALSE
    /\ scrRan = FALSE
    /\ scrRunErr = Nil
    /\ scrTarball = FALSE
    /\ scrReturn = Nil

NextScrutinize ==
    \/ GetHealthyNodes
    \/ GetNodesInfo
    \/ ProduceScrutinizeInstructions
    \/ RunScrutinize

SpecScrutinize == InitScrutinize /\ [][NextScrutinize]_vars

\* =================================================================== claims
\* -------------------------------------------------- reading the call log
LogIdx == 1..Len(callLog)

\* phase was invoked on the operation at position pos
Invoked(phase, pos) ==
    \E i \in LogIdx : callLog[i].phase = phase /\ callLog[i].pos = pos

\* phase was invoked on the operation at position pos and returned outcome
Outcome(phase, pos, outcome) ==
    \E i \in LogIdx : callLog[i] = LogEntry(phase, pos, outcome)

IsFinalize(e) == e.phase = "finalize"

\* the finalize invocations, in the order they were made
FinalizeLog == SelectSeq(callLog, IsFinalize)

\* the invocations as <<phase, position>>, in the order they were made
LogCalls == [i \in LogIdx |-> <<callLog[i].phase, callLog[i].pos>>]

Returned == enginePc = "returned"

\* the request-collection and result-collection being dispatched
Req == RequestCollection[sendOp]
Res == ResultCollection[sendOp]

\* ----------------------------------------------------------------- Engine
\* C1: when Run has returned, finalize was invoked on every operation whose
\* prepare returned success, also when its own execute failed or a later
\* operation's prepare or execute failed.
C1_FinalizeEveryPreparedOp ==
    Returned =>
        \A p \in Positions : Outcome("prepare", p, "ok") => Invoked("finalize", p)

\* two operations ran, the third one's prepare failed, both were finalized
C1_Witness ==
    /\ Returned
    /\ Outcome("execute", 1, "ok")
    /\ Outcome("execute", 2, "ok")
    /\ Outcome("prepare", 3, "error")
    /\ Invoked("finalize", 1)
    /\ Invoked("finalize", 2)

\* C2: finalize is invoked only once the run loop has stopped, and the
\* finalize-set is visited in reverse order; for [P1, P2, P3] with P1 run and
\* P2 failing in execute the invocations are exactly prepare P1, execute P1,
\* prepare P2, execute P2, finalize P2, finalize P1, and Run returns P2's
\* execute error.
C2_FinalizeInReverseAfterLoop ==
    /\ \A i, j \in LogIdx :
          (i < j /\ callLog[i].phase = "finalize") => callLog[j].phase = "finalize"
    /\ FinalizeLog # <<>> => enginePc \in {"finalize", "returned"}
    /\ Len(FinalizeLog) <= Len(finalizeSet)
    /\ \A k \in 1..Len(FinalizeLog) :
          k <= Len(finalizeSet) =>
              FinalizeLog[k].pos = finalizeSet[Len(finalizeSet) + 1 - k]
    /\ Returned => Len(FinalizeLog) = Len(finalizeSet)
    /\ (/\ Returned
        /\ Outcome("execute", 1, "ok")
        /\ Outcome("prepare", 2, "ok")
        /\ Outcome("execute", 2, "error"))
       => /\ LogCalls = << <<"prepare", 1>>, <<"execute", 1>>, <<"prepare", 2>>,
                           <<"execute", 2>>, <<"finalize", 2>>, <<"finalize", 1>> >>
          /\ runResult = <<"execute", 2>>

\* the scenario has run: P1 succeeded, P2's execute failed, Run returned
C2_Witness ==
    /\ Returned
    /\ Outcome("execute", 1, "ok")
    /\ Outcome("prepare", 2, "ok")
    /\ Outcome("execute", 2, "error")
    /\ Len(FinalizeLog) = 2

\* C3: after the first prepare or execute error only finalize is invoked;
\* Run returns that error; Run returns success iff every prepare and every
\* execute succeeded; finalize errors never change the result.
C3_FirstErrorIsTheResult ==
    /\ \A i, j \in LogIdx :
          (i < j /\ callLog[i].outcome = "error") => callLog[j].phase = "finalize"
    /\ Returned =>
          /\ runResult # "none"
          /\ runResult = "success" <=>
                \A p \in Positions :
                    Outcome("prepare", p, "ok") /\ Outcome("execute", p, "ok")
          /\ \A i \in LogIdx :
                callLog[i].outcome = "error" =>
                    runResult = <<callLog[i].phase, callLog[i].pos>>

\* every operation succeeded, some finalize failed, Run returned success
C3_Witness ==
    /\ Returned
    /\ warnings > 0
    /\ runResult = "success"

C6_OperationsAreSequential ==
    /\ \A i \in LogIdx :
          callLog[i].outcome = "running" =>
              /\ i = Len(callLog)
              /\ enginePc = "sending"
              /\ callLog[i].pos = opIndex
    /\ \A i \in LogIdx :
          (callLog[i].phase = "prepare" /\ callLog[i].pos > 1) =>
              \E j \in 1..(i - 1) :
                  callLog[j] = LogEntry("execute", callLog[i].pos - 1, "ok")
    /\ \A p \in Positions :
          Invoked("prepare", p) => 1..(p - 1) \subseteq ctxSeen[p]
    /\ \A h \in Hosts :
          worker[h] = "running" =>
              /\ enginePc = "sending"
              /\ sendOp = opIndex
              /\ callLog[Len(callLog)] = LogEntry("execute", opIndex, "running")
              /\ h \in RequestCollection[opIndex]

\* inside the second operation's execute two workers run at the same time,
\* and its prepare saw what the first operation wrote
C6_Witness ==
    /\ opIndex = 2
    /\ enginePc = "sending"
    /\ ctxSeen[2] = {1}
    /\ Cardinality({h \in Hosts : worker[h] = "running"}) >= 2

\* ------------------------------------------------------------- AdapterPool
\* C7: once a dispatch has made its result-collection, and after it has
\* returned, the hosts keyed in the result-collection are hosts keyed in the
\* request-collection, whatever an earlier dispatch left there.
C7_ResultKeysWithinRequestKeys ==
    (sendPc \in {"collect", "returned"} /\ sendErr = Nil) =>
        ResultKeys(Res) \subseteq Req

\* a second dispatch returned; the first one had left a result for a host
\* that the second request does not hold
C7_Witness ==
    /\ sendPc = "returned"
    /\ sendErr = Nil
    /\ dispatchCount = 2
    /\ ~(ResultKeys(resultsAtCall) \subseteq Req)
    /\ Req # {}
    /\ ResultKeys(Res) = Req

\* C8: a dispatch whose hosts are all in the pool launches one worker per
\* requested host and returns only after it received one result per host;
\* its result-collection then has exactly the requested hosts, failing
\* results included.
C8_OneWorkerAndOneResultPerHost ==
    /\ (sendPc \in {"launch", "collect"} \/ (sendPc = "returned" /\ sendErr = Nil)) =>
          /\ adapterToRequestCollection \in Orders(Req)
          /\ {h \in Hosts : worker[h] # "none"} =
                 {adapterToRequestCollection[i] : i \in 1..launched}
    /\ (sendPc = "returned" /\ sendErr = Nil) =>
          /\ launched = Cardinality(Req)
          /\ received = Cardinality(Req)
          /\ \A h \in Req : worker[h] = "sent"
          /\ ResultKeys(Res) = Req

\* a dispatch to two hosts returned with one failing and one passing result
C8_Witness ==
    /\ sendPc = "returned"
    /\ sendErr = Nil
    /\ Res[1] = "failure"
    /\ Res[2] = "passing"

\* C9: with a requested host absent from the pool, the step that leaves the
\* membership check returns the not-found error for an absent host, with no
\* worker launched, no ticker started and the result-collection untouched.
C9_AbsentHostFailsFast ==
    [][(sendPc = "build" /\ sendPc' # "build" /\ Req \ connections # {}) =>
          /\ sendPc' = "returned"
          /\ sendErr' \in {<<"not found", h>> : h \in Req \ connections}
          /\ launched' = 0
          /\ worker' = [h \in Hosts |-> "none"]
          /\ resultChannel' = <<>>
          /\ ResultCollection' = ResultCollection
          /\ UNCHANGED tickerVars]_vars

\* the error was returned for a request that also names a host of the pool,
\* on a ClusterHTTPRequest that holds results of an earlier dispatch
C9_Witness ==
    /\ sendPc = "returned"
    /\ sendErr # Nil
    /\ Req \cap connections # {}
    /\ ResultKeys(Res) # {}
    /\ Res = resultsAtCall
    /\ ForCli
    /\ tickerRunning = 0

\* every launched worker has finished
AllWorkersFinished ==
    /\ sendPc = "collect"
    /\ \A h \in Hosts : worker[h] # "running"

DoneRead == redPc = "done" /\ redOp = "read catalog"
DoneLoad == redPc = "done" /\ redOp = "load remote catalog"

\* hosts that returned a parseable descriptor
ParsedHosts == {h \in Hosts : hostResults[h].kind = "ok"}

\* hosts whose entry is a failure of some kind
FailedHosts == {h \in KeysOf(hostResults) : hostResults[h].kind # "ok"}

\* the maximum of versions.global over the parsed descriptors
MaxParsedGlobal ==
    CHOOSE m \in {hostResults[h].global : h \in ParsedHosts} :
        \A h \in ParsedHosts : hostResults[h].global <= m

\* the error a failed host contributes to the read-catalog aggregate
ReadCatalogHostError(h) ==
    IF hostResults[h].kind = "unparsable" THEN <<"parse", h>>
    ELSE IF hostResults[h].kind = "rejected" THEN <<"version", h>>
    ELSE <<"err", h>>

\* the error a failed host contributes to the load-remote-catalog aggregate
LoadCatalogHostError(h) ==
    IF hostResults[h].kind = "unparsable" THEN <<"parse", h>>
    ELSE IF hostResults[h].kind = "rejected" THEN <<"status", h>>
    ELSE <<"https", h>>

\* C11: after the election on a fresh ExecContext, hostsWithLatestCatalog is
\* non-empty iff some host returned a parseable descriptor, and then it holds
\* exactly the hosts whose versions.global is the maximum over the parsed
\* descriptors, for any integer versions.
C11_ElectionPublishesMaxHosts ==
    (DoneRead /\ ctxBefore = <<>>) =>
        /\ hostsWithLatestCatalog # <<>> <=> ParsedHosts # {}
        /\ hostsWithLatestCatalog # <<>> =>
              Range(hostsWithLatestCatalog) =
                  {h \in ParsedHosts : hostResults[h].global = MaxParsedGlobal}

\* C12: when the election publishes hostsWithLatestCatalog, the nmaVDatabase
\* it publishes is the descriptor parsed from the first-seen winner, never
\* an empty or another host's descriptor.
C12_PublishedDescriptorIsFirstWinner ==
    (DoneRead /\ <<"no latest catalog">> \notin Range(redErr)) =>
        /\ hostsWithLatestCatalog # <<>>
        /\ nmaVDatabase = <<hostsWithLatestCatalog[1]>>

\* C13: with at least one parseable descriptor and at least one failed host,
\* the election publishes its winners and processResult returns nil.
C13_PartialFailureReturnsNil ==
    (DoneRead /\ ParsedHosts # {} /\ FailedHosts # {}) =>
        /\ hostsWithLatestCatalog # <<>>
        /\ Range(hostsWithLatestCatalog) \subseteq ParsedHosts
        /\ redErr = Nil

\* the aggregated error of an election no host succeeded in: every per-host
\* error, then the synthetic error
AllFailedError ==
    /\ Len(redErr) = Cardinality(KeysOf(hostResults)) + 1
    /\ redErr[Len(redErr)] = <<"no latest catalog">>
    /\ \A h \in KeysOf(hostResults) : ReadCatalogHostError(h) \in Range(redErr)

\* C14 as stated: when no host returns a parseable descriptor, the aggregated
\* error holds every per-host error and the synthetic error, and
\* hostsWithLatestCatalog is empty afterwards whatever it held before.
C14_TotalFailureEmptiesContext ==
    (DoneRead /\ ParsedHosts = {}) =>
        /\ AllFailedError
        /\ hostsWithLatestCatalog = <<>>

\* C14 as amended: when no host returns a parseable descriptor, the
\* aggregated error holds every per-host error and the synthetic error, and
\* the ExecContext is left as it was: empty if fresh, else the earlier winner
\* and its descriptor.
C14_TotalFailureKeepsContext ==
    (DoneRead /\ ParsedHosts = {}) =>
        /\ AllFailedError
        /\ hostsWithLatestCatalog = ctxBefore
        /\ nmaVDatabase = ctxBefore

\* two hosts failed in different ways, on an ExecContext that held a winner
C14_Witness ==
    /\ DoneRead
    /\ ParsedHosts = {}
    /\ ctxBefore # <<>>
    /\ hostsWithLatestCatalog = ctxBefore
    /\ {hostResults[h].kind : h \in Hosts} = {"failure", "unparsable"}

\* C15: the quorum check returns true iff twice the success count exceeds
\* the total, for every pair of non-negative counts; of 5, 3 pass and 2 fail.
C15_QuorumIsStrictMajority ==
    redPc = "done" /\ redOp = "quorum check" =>
        /\ quorumResult \in BOOLEAN
        /\ quorumResult <=> 2 * successPrimaryNodeCount > primaryNodeCount
        /\ (primaryNodeCount = 5 /\ successPrimaryNodeCount = 3) => quorumResult
        /\ (primaryNodeCount = 5 /\ successPrimaryNodeCount = 2) => ~quorumResult

\* exactly half of an even total was checked and is no quorum
C15_Witness ==
    /\ redPc = "done"
    /\ redOp = "quorum check"
    /\ primaryNodeCount = 4
    /\ successPrimaryNodeCount = 2
    /\ quorumResult = FALSE

\* the per-host errors of a load-remote-catalog aggregate, then the quorum
\* error, then the error that no host passed
LoadCatalogErrorWith(quorumError) ==
    /\ Len(redErr) = Cardinality(FailedHosts) + 2
    /\ \A h \in FailedHosts : LoadCatalogHostError(h) \in Range(redErr)
    /\ redErr[Len(redErr) - 1] = quorumError

\* C16 as stated: with quorum processResult returns nil even if hosts failed;
\* without it the aggregated error joins every per-host error with a quorum
\* error stating the success count and the total primary-node-count.
C16_QuorumErrorNamesCountAndTotal ==
    DoneLoad =>
        /\ quorumResult => redErr = Nil
        /\ ~quorumResult =>
              LoadCatalogErrorWith(<<"quorum", successPrimaryNodeCount,
                                     primaryNodeCount>>)

\* C16 as amended: with quorum processResult returns nil even if hosts
\* failed; without it the aggregated error joins every per-host error with a
\* quorum error stating the success count only.
C16_QuorumErrorNamesCount ==
    DoneLoad =>
        /\ quorumResult \in BOOLEAN
        /\ quorumResult <=> 2 * successPrimaryNodeCount > primaryNodeCount
        /\ successPrimaryNodeCount =
              Cardinality({h \in ParsedHosts : vdbPrimary[h]})
        /\ quorumResult => redErr = Nil
        /\ ~quorumResult =>
              LoadCatalogErrorWith(<<"quorum", successPrimaryNodeCount>>)

\* the only primary loaded its catalog, another host failed: nil is returned
C16_Witness ==
    /\ DoneLoad
    /\ quorumResult = TRUE
    /\ FailedHosts # {}
    /\ redErr = Nil

\* C20: processResult of the read-catalog, load-remote-catalog,
\* download-config and start-replication operations returns an error when
\* the result-collection is fully empty.
C20_EmptyResultsAreAnError ==
    (/\ redPc = "done"
     /\ redOp \in {"read catalog", "load remote catalog", "download config",
                   "start replication"}
     /\ KeysOf(hostResults) = {}) => redErr # Nil

\* ------------------------------------------------------------------ Poller
PollIdx == 1..Len(pollLog)
CountEvents(ev) == Cardinality({i \in PollIdx : pollLog[i].ev = ev})
\* the rounds so far are the predicate's calls
Rounds == CountEvents("predicate")
LastEvent == pollLog[Len(pollLog)]
PollReturned == pollPc = "returned"
\* the predicate returned done, on the round that is the last one
DoneOnLastRound == PollReturned /\ LastEvent.ev = "predicate" /\ LastEvent.done

\* C17: in every round of the Poller the request is dispatched and then the
\* predicate is called once; (true, nil) ends polling with success and
\* (true, err) ends it returning err, nothing being dispatched after either;
\* (false, nil) is followed by a sleep of one interval and then by another
\* dispatch (or, the deadline having passed, by the timeout of C18).
C17_RoundIsDispatchThenPredicate ==
    /\ \A i \in PollIdx :
          /\ pollLog[i].ev = "predicate"
                => i > 1 /\ pollLog[i - 1].ev = "dispatch"
          /\ pollLog[i].ev = "dispatch" /\ i < Len(pollLog)
                => pollLog[i + 1].ev = "predicate"
          /\ pollLog[i].ev = "dispatch"
                => pollLog[i - 1].ev \in {"runExecute", "sleep"}
          /\ pollLog[i].ev = "predicate" /\ pollLog[i].done
                => /\ i = Len(pollLog)
                   /\ PollReturned
                   /\ pollStateReturn = pollLog[i].err
          /\ pollLog[i].ev = "predicate" /\ ~pollLog[i].done
                => /\ pollLog[i].err = Nil
                   /\ i < Len(pollLog) => pollLog[i + 1].ev = "sleep"
          /\ pollLog[i].ev = "sleep"
                => /\ pollLog[i - 1].ev = "predicate" /\ ~pollLog[i - 1].done
                   /\ i < Len(pollLog)
                         => pollLog[i + 1].ev \in {"dispatch", "timeout"}
    /\ pollPc = "dispatch" /\ pollLog[Len(pollLog)].ev = "sleep"
          => pollClock <= PollTimeout
    /\ PollReturned => LastEvent.ev \in {"predicate", "timeout"}

\* three rounds: (false, nil) twice, each followed by a sleep and a dispatch,
\* then (true, err) returned as the Poller's error
C17_Witness ==
    /\ DoneOnLastRound
    /\ Rounds = 3
    /\ CountEvents("sleep") = 2
    /\ LastEvent.err # Nil
    /\ pollStateReturn = LastEvent.err

\* C18: a predicate that never returns done does not make the Poller loop
\* forever: every execute returns; a Poller whose predicate never returned
\* done returns the timeout error naming the operation, it does so only once
\* the time since it started exceeds the timeout, and only after the round in
\* progress (dispatch, predicate) is complete, whatever the result-collections.
C18_TimeoutEndsPolling ==
    /\ <>PollReturned
    /\ [](PollReturned /\ ~DoneOnLastRound
            => /\ LastEvent.ev = "timeout"
               /\ pollStateReturn = TimeoutError
               /\ executeReturn = processResultReturn(TimeoutError)
               /\ pollClock > PollTimeout
               /\ Rounds >= 1
               /\ \A i \in PollIdx : pollLog[i].ev = "dispatch"
                     => pollLog[i + 1].ev = "predicate")
    /\ [](pollPc \in {"dispatch", "predicate", "sleep"}
            => pollClock - MaxDispatchTime - PollInterval <= PollTimeout)

\* the timeout after rounds whose result-collections hold no response at all
C18_Witness ==
    /\ PollReturned
    /\ pollStateReturn = TimeoutError
    /\ Rounds >= 2
    /\ \A h \in Hosts : hostResults[h].kind = "absent"

PredicateCalled == pollPc \in {"sleep", "returned"} /\ LastEvent.ev = "predicate"

\* C21: a single unauthorized result is fatal: when some host's result in the
\* result-collection is unauthorized the subscription poll's predicate
\* returns an error, in whatever order the hosts are visited.
C21_UnauthorizedIsFatal ==
    PredicateCalled /\ (\E h \in Hosts : hostResults[h].kind = "unauthorized")
       => LastEvent.err # Nil

\* ----------------------------------------------------------------- prepare
PrepIdx == 1..Len(prepLog)

\* C22: prepare is idempotent: called twice in a row on one operation
\* instance, with ExecContext and VDB unchanged, it leaves the same
\* request-collection (and the same outcome) both times.
C22_PrepareIsIdempotent ==
    \A i \in PrepIdx : \A j \in PrepIdx : prepLog[i] = prepLog[j]

\* C29: the download-config operation built with nil hosts and a VDB without
\* nodes, prepared after the read-catalog operation: it targets exactly one
\* host, hostsWithLatestCatalog[0] as the election published it, a host with
\* the maximum global version, with the catalog path the published
\* descriptor gives for it; without an election result prepare fails with
\* 'could not find at least one host with the latest catalog'.
C29_DownloadTargetsFirstWinner ==
    \A i \in PrepIdx :
       IF hostsWithLatestCatalog = <<>>
       THEN prepLog[i].err =
               <<"could not find at least one host with the latest catalog">>
       ELSE /\ prepLog[i].err = Nil
            /\ hostResults[hostsWithLatestCatalog[1]].global = MaxParsedGlobal
            /\ prepLog[i].requests =
                  {HostRequest(hostsWithLatestCatalog[1], "config/vertica",
                       getCatalogPath(editorCatalogPath(nmaVDatabase[1],
                                          hostsWithLatestCatalog[1])))}

\* ------------------------------------------------------------------ quorum
\* the hosts whose load succeeded: passing, parsed, status 0
LoadedHosts == {h \in Hosts : hostResults[h].kind = "ok"}
PrimaryHosts == {h \in Hosts : vdbPrimary[h]}

\* C27: in the load-remote-catalog operation a host counts toward quorum only
\* if its result is passing, parses, has status 0 and its node is primary; a
\* success on a non-primary node does not raise the count; the total the
\* count is compared against is the number of primary nodes of the VDB.
C27_OnlyPrimarySuccessesCount ==
    DoneLoad
       => /\ successPrimaryNodeCount = Cardinality(LoadedHosts \cap PrimaryHosts)
          /\ primaryNodeCount = Cardinality(PrimaryHosts)
          /\ quorumResult = (2 * Cardinality(LoadedHosts \cap PrimaryHosts)
                                > Cardinality(PrimaryHosts))
          /\ (redErr = Nil) = quorumResult

\* every host succeeded, one of them is not primary and is not counted
C27_Witness ==
    /\ DoneLoad
    /\ LoadedHosts = Hosts
    /\ PrimaryHosts # Hosts
    /\ PrimaryHosts # {}
    /\ successPrimaryNodeCount = Cardinality(PrimaryHosts)
    /\ successPrimaryNodeCount < Cardinality(LoadedHosts)

\* ------------------------------------------------------- subscription poll
KindHosts(kinds) == {h \in Hosts : hostResults[h].kind \in kinds}
ActiveHosts == KindHosts({"ok"})
NonActiveHosts == KindHosts({"rejected"})
PassingHosts == KindHosts({"ok", "rejected", "unparsable"})
DoneWithSuccess == LastEvent.done /\ LastEvent.err = Nil
NotDone == ~LastEvent.done /\ LastEvent.err = Nil

\* C28: the predicate returns (true, nil) only when every passing response
\* of the result-collection is all ACTIVE, and (false, nil) when some entry
\* is not ACTIVE or no host has a passing result, whatever the order of the
\* visit.
C28_DoneOnlyWhenAllActive ==
    PredicateCalled
       => /\ DoneWithSuccess => NonActiveHosts = {}
          /\ NonActiveHosts # {} \/ PassingHosts = {} => NotDone

\* -------------------------------------------------- result channel
RunningWorkers == {h \in Hosts : worker[h] = "running"}
SentWorkers == {h \in Hosts : worker[h] = "sent"}
Dispatching == sendPc \in {"launch", "collect"} \/ (sendPc = "returned" /\ sendErr = Nil)

\* C26: the result channel has room for one result of every launched worker,
\* so a running worker can always send its result; the channel is closed only
\* after all hostCount results were received, so no worker is left that
\* could send on the closed channel; the result-collection has one entry per
\* result the dispatching goroutine received.
C26_WorkersNeverBlockOnSend ==
    Dispatching
       => /\ \A h \in RunningWorkers : ENABLED WorkerSend(h)
          /\ Len(resultChannel) + received = Cardinality(SentWorkers)
          /\ Len(resultChannel) <= launched
          /\ channelClosed => /\ received = hostCount
                              /\ resultChannel = <<>>
                              /\ RunningWorkers = {}
          /\ sendPc # "launch" => Cardinality(ResultKeys(Res)) = received

\* both workers sent before the dispatcher received anything: the channel
\* holds hostCount results
C26_Witness ==
    /\ sendPc = "collect"
    /\ hostCount = NumHosts
    /\ Len(resultChannel) = hostCount
    /\ received = 0

\* ---------------------------------------------------------- cluster config
CfgIdx == 1..Len(cfgLog)
SuccessfulWrites == {i \in CfgIdx : cfgLog[i].err = Nil}

\* C23: every call that finds a config file either backs it up before
\* writing (the backup then holds the file as it was before the write) or,
\* the backup failing, returns an error without touching the file; after two
\* or more successful writes the config file and a backup both exist.
C23_BackupBeforeOverwrite ==
    /\ \A i \in CfgIdx :
          cfgLog[i].configBefore # NoFile
             => /\ cfgLog[i].config # cfgLog[i].configBefore
                   => cfgLog[i].backup = cfgLog[i].configBefore
                /\ cfgLog[i].backupFailed
                   => /\ cfgLog[i].config = cfgLog[i].configBefore
                      /\ cfgLog[i].err # Nil
    /\ Cardinality(SuccessfulWrites) >= 2
          => configFile # NoFile /\ backupFile # NoFile

\* the first write creates the file, a later one fails on its backup and
\* leaves the file, a third succeeds: config and backup exist
C23_Witness ==
    /\ Len(cfgLog) = 3
    /\ cfgLog[1].configBefore = NoFile
    /\ cfgLog[1].err = Nil
    /\ cfgLog[2].backupFailed
    /\ cfgLog[2].config = <<1>>
    /\ cfgLog[3].err = Nil
    /\ configFile = <<3>>
    /\ backupFile = <<1>>

\* ----------------------------------------------------------------- Analyze
Analyzed == anPc = "done" /\ analyzeErr # <<<<"cannot resolve hosts">>>>
SetNonEmpty(v) == v.found /\ v.value # ""
NameError == <<"unable to get database name from environment variable">>
PathError == <<"unable to get catalog path from environment variable">>

\* C24: with KUBERNETES_PORT set non-empty and HonorUserInput true, Analyze
\* takes DBName from DATABASE_NAME and CatalogPrefix from CATALOG_PATH and
\* returns an error naming each of the two that is unset or empty, both
\* joined when both are; otherwise it leaves DBName and CatalogPrefix as they
\* were and returns no error.
C24_AnalyzeReadsTheEnvironment ==
    Analyzed
       => IF SetNonEmpty(envPort) /\ honorUserInput
          THEN /\ SetNonEmpty(envDB) => sOptions.DBName = envDB.value
               /\ SetNonEmpty(envCat) => sOptions.CatalogPrefix = envCat.value
               /\ analyzeErr =
                     (IF SetNonEmpty(envDB) THEN <<>> ELSE <<NameError>>)
                        \o (IF SetNonEmpty(envCat) THEN <<>> ELSE <<PathError>>)
          ELSE /\ sOptions = optionsBefore
               /\ analyzeErr = Nil

\* both variables missing (one unset, one empty): the two errors joined
C24_Witness ==
    /\ Analyzed
    /\ SetNonEmpty(envPort) /\ honorUserInput
    /\ ~envDB.found
    /\ envCat.found /\ envCat.value = ""
    /\ analyzeErr = <<NameError, PathError>>

\* -------------------------------------------------------------- depot size
Validated == dsPc = "done"
\* an optionally signed whole number
SignedWhole(s) ==
    /\ s # <<>>
    /\ LET digits == IF Head(s) \in {"-", "+"} THEN Tail(s) ELSE s
       IN digits # <<>> /\ \A i \in 1..Len(digits) : digits[i] \in Digits
UnsignedPart(s) == IF Head(s) \in {"-", "+"} THEN Tail(s) ELSE s
\* its value (every value above 1000 counts as 1000)
WholeValue(s) ==
    IF Head(s) = "-" THEN 0 - Magnitude(UnsignedPart(s), 0)
    ELSE Magnitude(UnsignedPart(s), 0)
\* it is no greater than the largest int
FitsInt(s) == NumeralLE(StripZeros(UnsignedPart(s)), MaxIntDigits)
Number(s) == SubSeq(s, 1, Len(s) - 1)
\* <whole number in [0, 100]>% or <whole number above 0><K, M, G or T>
WellFormedSize(s) ==
    /\ Len(s) >= 2
    /\ SignedWhole(Number(s))
    /\ IF ContainsPercent(s)
       THEN s[Len(s)] = "%" /\ WholeValue(Number(s)) \in 0..100
       ELSE s[Len(s)] \in {"K", "M", "G", "T"} /\ WholeValue(Number(s)) > 0

\* C25 as stated: a size is accepted iff it is a whole number in [0, 100]
\* followed by '%' or a whole number above 0 followed by one of K, M, G, T;
\* accepted is (true, nil), rejected is (false, error).
C25_AcceptsExactlyWellFormedSizes ==
    Validated
       => /\ dsValid = WellFormedSize(depotSize)
          /\ dsValid = (dsErr = Nil)

\* C25 (amended): a size is accepted iff, with its leading and trailing white
\* space removed, it is a whole number in [0, 100] followed by '%' or a
\* whole number above 0 and within the range of int followed by one of K, M,
\* G, T; accepted is (true, nil), rejected is (false, error).
C25_AcceptsWellFormedTrimmedSizes ==
    Validated
       => /\ dsValid = (/\ WellFormedSize(TrimSpace(depotSize))
                        /\ ContainsPercent(depotSize)
                              \/ FitsInt(Number(TrimSpace(depotSize))))
          /\ dsValid = (dsErr = Nil)

\* a size with white space around it is accepted
C25_Witness ==
    /\ Validated
    /\ dsValid
    /\ dsErr = Nil
    /\ Head(depotSize) = " "
    /\ depotSize[Len(depotSize)] = " "

RevIdx == 1..Len(revLog)
RunEvents(run) == {i \in RevIdx : revLog[i].run = run}
OpCalls(run) ==
    {i \in RunEvents(run) : revLog[i].phase \in {"prepare", "execute"}}
RunReturned(run, ok) ==
    {i \in RunEvents(run) : revLog[i].phase = "return" /\ revLog[i].ok = ok}
OpPosition(ops, op) == CHOOSE k \in 1..Len(ops) : ops[k] = op

\* C30: VReviveDB runs two Engine runs in order. Every call of the second run
\* (its production included) comes after the first run returned success; the
\* operations of each run are prepared and executed in the order of its
\* instruction list (health, version, running-DB check, download; then
\* prepare directories, network profiles, load remote catalog); once the
\* first run has failed no operation of the second run is prepared or
\* executed and VReviveDB returns the first run's error; load-remote-catalog
\* prepares only after the network-profile operation of the same run has
\* executed with success.
C30_SecondRunOnlyAfterFirstSucceeded ==
    /\ \A i \in RunEvents(2) : \E j \in RunReturned(1, TRUE) : j < i
    /\ \A i \in OpCalls(1) : \E k \in 1..Len(Instructions1) :
          revLog[i].op = Instructions1[k]
    /\ \A i \in OpCalls(2) : \E k \in 1..Len(Instructions2) :
          revLog[i].op = Instructions2[k]
    /\ \A run \in {1, 2} : \A i, j \in OpCalls(run) :
          LET ops == IF run = 1 THEN Instructions1 ELSE Instructions2
          IN i < j =>
                \/ OpPosition(ops, revLog[i].op) < OpPosition(ops, revLog[j].op)
                \/ /\ revLog[i].op = revLog[j].op
                   /\ revLog[i].phase = "prepare"
                   /\ revLog[j].phase = "execute"
    /\ RunReturned(1, FALSE) # {} =>
          /\ RunEvents(2) = {}
          /\ revPc = "returned"
          /\ revReturn = revRunErr
          /\ revReturn # Nil
    /\ \A i \in OpCalls(2) :
          (revLog[i].op = "NMALoadRemoteCatalogOp" /\ revLog[i].phase = "prepare")
             => \E j \in OpCalls(2) :
                   /\ j < i
                   /\ revLog[j].op = "NMANetworkProfileOp"
                   /\ revLog[j].phase = "execute"
                   /\ revLog[j].ok
                   /\ networkProfiles = revHosts

\* both runs ran to the end and the database is revived, and
\* load-remote-catalog was prepared and executed in the second run
C30_Witness ==
    /\ revPc = "returned"
    /\ revReturn = Nil
    /\ RunReturned(1, TRUE) # {}
    /\ RunReturned(2, TRUE) # {}
    /\ \E i \in OpCalls(2) :
          revLog[i].op = "NMALoadRemoteCatalogOp" /\ revLog[i].phase = "execute"
    /\ Cardinality(revHosts) = NumHosts

Generated == lcPc \in {"generated", "prepared"}
LoadPrepared == lcPc = "prepared" /\ lcErr = Nil
ReviveIdx == 1..Len(reviveHosts)
DistinctNewHosts ==
    /\ Len(reviveHosts) = Cardinality(DOMAIN oldVdb)
    /\ \A i, j \in ReviveIdx : reviveHosts[i] = reviveHosts[j] => i = j
SmallerNames(name) == {a \in DOMAIN oldVdb : oldVdb[a] < name}

\* C31: generateReviveVDB, given an old VDB with n nodes and n distinct new
\* hosts, does not fail and gives the i-th new host (in input order) to the
\* node with the i-th smallest name: the new HostNodeMap has exactly the n
\* new hosts as keys, each node's Address is its key, every old node name
\* appears exactly once, oldHosts[i] is the old address of the node now at
\* hosts[i], and the revive request for hosts[i] carries that old address as
\* its host field.
C31_NewHostsFollowNameOrder ==
    DistinctNewHosts =>
       /\ lcPc # "panic"
       /\ Generated =>
             /\ DOMAIN newVDB = Range(reviveHosts)
             /\ Cardinality(DOMAIN newVDB) = Cardinality(DOMAIN oldVdb)
             /\ \A h \in DOMAIN newVDB : newVDB[h].Address = h
             /\ \A a \in DOMAIN oldVdb :
                   Cardinality({h \in DOMAIN newVDB : newVDB[h].Name = oldVdb[a]}) = 1
             /\ Len(oldHosts) = Len(reviveHosts)
             /\ \A i \in ReviveIdx :
                   /\ Cardinality(SmallerNames(newVDB[reviveHosts[i]].Name)) = i - 1
                   /\ oldHosts[i] \in DOMAIN oldVdb
                   /\ oldVdb[oldHosts[i]] = newVDB[reviveHosts[i]].Name
       /\ LoadPrepared =>
             \A i \in ReviveIdx :
                /\ reviveHosts[i] \in DOMAIN lcRequests
                /\ lcRequests[reviveHosts[i]].RequestData.host = oldHosts[i]
                /\ lcRequests[reviveHosts[i]].RequestData.node_name
                      = oldVdb[oldHosts[i]]

\* two nodes whose names sort against their addresses get two new hosts given
\* in descending order, and the revive requests are built
C31_Witness ==
    /\ DistinctNewHosts
    /\ LoadPrepared
    /\ Len(reviveHosts) = 2
    /\ reviveHosts[1] > reviveHosts[2]
    /\ \E a, b \in DOMAIN oldVdb : a < b /\ oldVdb[a] > oldVdb[b]
    /\ oldHosts[1] > oldHosts[2]

LoadPrepareReturned == lcPc = "prepared"
ProfilesCoverHosts == DOMAIN lcProfiles = Range(reviveHosts)
TargetNodeNames == {newVDB[h].Name : h \in Range(reviveHosts) \cap DOMAIN newVDB}

RepIdx == 1..Len(repLog)
NodesIdx == 1..Len(nodesInfo)
\* the hosts of the original list that are UP nodes of the wanted sandbox
UpSourceHosts ==
    {h \in Range(repOriginalHosts) :
        \E k \in NodesIdx : /\ nodesInfo[k].Address = h
                            /\ nodesInfo[k].State = "UP"
                            /\ nodesInfo[k].Sandbox = repSandbox}

\* C32: after a successful prepare of the start-replication operation exactly
\* one source host is targeted, a host of the operation's original host list
\* that is an UP node of the main cluster when the sandbox option is empty
\* and of the named sandbox otherwise; prepare returns an error and builds no
\* request when the ExecContext holds no node information or when no such
\* host exists.
C32_OneUpSourceHostTargeted ==
    \A i \in RepIdx :
       /\ repLog[i].err = Nil =>
             /\ Len(repLog[i].hosts) = 1
             /\ repLog[i].hosts[1] \in UpSourceHosts
             /\ {r.host : r \in repLog[i].requests} = {repLog[i].hosts[1]}
       /\ (nodesInfo = <<>> \/ UpSourceHosts = {}) =>
             /\ repLog[i].err # Nil
             /\ repLog[i].requests = repLog[i].requestsBefore

\* a prepare of the download-config operation has just returned success
DownloadPrepared ==
    /\ prepOp = "download config"
    /\ Len(prepLog') = Len(prepLog) + 1
    /\ prepLog'[Len(prepLog')].err = Nil

\* C33: prepare of the download-config operation uses the source host list
\* its caller supplied whenever that list is not nil; it selects a host
\* itself only when the list is nil, and then takes the first host with the
\* latest catalog or, when the VDB has nodes, an UP primary node.
C33_SuppliedSourceHostsAreUsed ==
    [][DownloadPrepared =>
          IF ~opHostsNil
          THEN opHosts' = opHosts
          ELSE /\ Len(opHosts') = 1
               /\ IF NodeHosts(hostNodeMap) = {}
                  THEN opHosts' = latestCatalogHost(hostsWithLatestCatalog)
                  ELSE /\ hostNodeMap[opHosts'[1]].primary
                       /\ hostNodeMap[opHosts'[1]].up]_vars

\* every prepare of the read-catalog operation so far returned success
ReadCatalogPrepared ==
    /\ prepOp = "read catalog"
    /\ prepLog # <<>>
    /\ \A i \in PrepIdx : prepLog[i].err = Nil

\* C37: after any number of successful prepare calls on one read-catalog
\* operation its hosts list has no duplicates and is exactly the key set of
\* its request-collection, which is the initiator hosts when an initiator is
\* given and all hosts of the VDB otherwise; prepare returns an error when
\* an initiator host is not in the VDB.
C37_ReadCatalogHostsHaveNoDuplicates ==
    /\ ReadCatalogPrepared =>
          /\ \A i, j \in 1..Len(opHosts) : opHosts[i] = opHosts[j] => i = j
          /\ Range(opHosts) = {r.host : r \in opRequests}
          /\ Range(opHosts) = IF initiator # <<>> THEN Range(initiator)
                              ELSE NodeHosts(hostNodeMap)
    /\ prepOp = "read catalog" =>
          \A i \in PrepIdx :
             (\E h \in Range(initiator) : ~hostNodeMap[h].inMap)
                => prepLog[i].err # Nil

\* create-db has composed its instruction list
CreateComposed == vbVerb = "create" /\ vbInstructions # <<>>
InstrIdx == 1..Len(vbInstructions)
OpAt(op) == {i \in InstrIdx : vbInstructions[i].op = op}
FirstOf(op) == CHOOSE i \in OpAt(op) : \A j \in OpAt(op) : i <= j
BootstrapHost == vbInstructions[FirstOf("NMABootstrapCatalogOp")].hosts
NewNodeHosts == SelectSeq(vbOptions.HostList, LAMBDA h : h \notin Range(BootstrapHost))
\* the operations that exist only for a database of several hosts
SeveralHostsOps ==
    {"HTTPCreateNodeOp", "NMADownloadVerticaConfigOp", "NMAUploadVerticaConfigOp",
     "NMADownloadSpreadConfigOp", "NMAUploadSpreadConfigOp"}
\* where the bootstrap and node sequence ends
LastNodeStep ==
    CHOOSE i \in InstrIdx :
       /\ vbInstructions[i].op \in {"HTTPSReloadSpreadOp", "NMAStartNodeOp"}
       /\ \A j \in InstrIdx :
             vbInstructions[j].op \in {"HTTPSReloadSpreadOp", "NMAStartNodeOp"}
                => j <= i
FinalOps ==
    [i \in 1..(Len(vbInstructions) - LastNodeStep) |->
        vbInstructions[LastNodeStep + i].op]
ExpectedFinalOps ==
    (IF ~vbOptions.SkipStartupPolling THEN <<"HTTPSPollNodeStateOp">> ELSE <<>>)
    \o (IF vbOptions.UseDepot THEN <<"HTTPSCreateDepotOp">> ELSE <<>>)
    \o (IF Len(vbOptions.HostList) >= 3 THEN <<"HTTPSMarkDesignKsafeOp">> ELSE <<>>)
    \o (IF ~vbOptions.SkipPackageInstall THEN <<"HTTPSInstallPackagesOp">> ELSE <<>>)
    \o (IF vbOptions.IsEon THEN <<"HTTPSyncCatalogOp">> ELSE <<>>)

\* C34: the instruction list composed for create-db keeps this order: NMA
\* health, version check and running-DB check come before prepare-directories,
\* which comes before network-profile, bootstrap-catalog, catalog-editor
\* fetch, start of the bootstrap node and poll of the bootstrap node, in this
\* order; create-node, the four config transfer operations and the start of
\* the new nodes (on HostList minus the bootstrap host) are present iff there
\* is more than one host; then follow, in this order and each iff its
\* condition holds, poll-all-nodes (startup polling not skipped), create-depot
\* (UseDepot), mark-design-ksafe (at least 3 hosts), install-packages (not
\* skipped) and sync-catalog (Eon).
C34_CreateDBInstructionOrder ==
    CreateComposed =>
       /\ \A op \in {"NMAHealthOp", "NMAVerticaVersionOp", "HTTPCheckDBRunningOp"} :
             /\ Cardinality(OpAt(op)) = 1
             /\ FirstOf(op) < FirstOf("NMAPrepareDirectoriesOp")
       /\ FirstOf("NMAPrepareDirectoriesOp") < FirstOf("NMANetworkProfileOp")
       /\ FirstOf("NMANetworkProfileOp") < FirstOf("NMABootstrapCatalogOp")
       /\ FirstOf("NMABootstrapCatalogOp") < FirstOf("NMAFetchVdbFromCatalogEditorOp")
       /\ FirstOf("NMAFetchVdbFromCatalogEditorOp") < FirstOf("NMAStartNodeOp")
       /\ FirstOf("NMAStartNodeOp") < FirstOf("HTTPSPollNodeStateOp")
       /\ vbInstructions[FirstOf("NMAStartNodeOp")].hosts = BootstrapHost
       /\ vbInstructions[FirstOf("HTTPSPollNodeStateOp")].hosts = BootstrapHost
       /\ Len(BootstrapHost) = 1
       /\ \A op \in SeveralHostsOps :
             /\ Cardinality(OpAt(op)) = IF Len(vbOptions.HostList) > 1 THEN 1 ELSE 0
             /\ \A i \in OpAt(op) : FirstOf("HTTPSPollNodeStateOp") < i /\ i < LastNodeStep
       /\ Cardinality(OpAt("NMAStartNodeOp"))
             = IF Len(vbOptions.HostList) > 1 THEN 2 ELSE 1
       /\ Len(vbOptions.HostList) > 1 =>
             /\ vbInstructions[LastNodeStep].op = "NMAStartNodeOp"
             /\ vbInstructions[LastNodeStep].hosts = NewNodeHosts
             /\ BootstrapHost[1] \notin Range(NewNodeHosts)
       /\ FinalOps = ExpectedFinalOps
       /\ \A i \in InstrIdx :
             (i > LastNodeStep /\ vbInstructions[i].op = "HTTPSPollNodeStateOp")
                => vbInstructions[i].hosts = vbOptions.HostList

\* a list for three hosts with every optional operation in it
C34_Witness ==
    /\ CreateComposed
    /\ Len(vbOptions.HostList) = 3
    /\ Len(ExpectedFinalOps) = 5
    /\ Len(vbInstructions) = 22
    /\ BootstrapHost = <<2>>

VerbReturned == vbPc = "returned"
RunSucceeded == vbRunErr = Nil
ConfigCallFailed == \E i \in 1..Len(vbConfigCalls) : vbConfigCalls[i][2] # Nil

\* C35: the persisted cluster config is touched only after the Engine run of
\* the verb returned success: create-db calls the write of the config file
\* iff the run succeeded and drop-db the removal iff the run succeeded, once
\* each; before the run has returned and when the run fails (or never
\* starts) the config file and its backup are exactly as they were; a
\* failure to write or remove the config after a successful run does not
\* turn the verb's result into an error.
C35_ConfigTouchedOnlyAfterSuccess ==
    /\ ~VerbReturned =>
          vbConfigCalls = <<>> /\ vbConfigFile = vbConfigBefore
                               /\ vbBackupFile = NoFile
    /\ VerbReturned =>
          /\ RunSucceeded <=> vbConfigCalls # <<>>
          /\ RunSucceeded =>
                /\ Len(vbConfigCalls) = 1
                /\ vbConfigCalls[1][1] = IF vbVerb = "create" THEN "write"
                                         ELSE "remove"
                /\ vbReturn = Nil
                /\ ~ConfigCallFailed /\ vbVerb = "create" => vbConfigFile = <<1>>
                /\ ~ConfigCallFailed /\ vbVerb = "drop" => vbConfigFile = NoFile
          /\ ~RunSucceeded =>
                /\ vbConfigFile = vbConfigBefore
                /\ vbBackupFile = NoFile
                /\ vbReturn # Nil

\* drop-db ran with success, could not remove the config file and returned
\* no error
C35_Witness ==
    /\ VerbReturned
    /\ vbVerb = "drop"
    /\ RunSucceeded
    /\ ConfigCallFailed
    /\ vbConfigFile = vbConfigBefore
    /\ vbReturn = Nil

EonValidated == eonPc = "done"
EonRejected == eonErr # Nil
CommunalGiven == eonOptions.CommunalStorageLocation # ""
DepotPathGiven == eonOptions.DepotPrefix # ""

\* C40: ValidateEonOptions rejects every option set that gives a communal
\* storage location without a shard count greater than 0 (zero and negative
\* alike) or without a depot path, and rejects a depot path or
\* AWS-credentials-from-environment given without a communal storage
\* location and a depot size given without a depot path.
C40_EonOptionsRejected ==
    EonValidated =>
       /\ CommunalGiven /\ eonOptions.ShardCount <= 0 => EonRejected
       /\ CommunalGiven /\ ~DepotPathGiven => EonRejected
       /\ DepotPathGiven /\ ~CommunalGiven => EonRejected
       /\ eonOptions.GetAwsCredentialsFromEnv /\ ~CommunalGiven => EonRejected
       /\ eonOptions.DepotSize # <<>> /\ ~DepotPathGiven => EonRejected

ScrutinizeProduced == scrInstrHosts # <<>>

\* C38: in VScrutinize, once getVDBForScrutinize succeeded the VDB's host
\* list is non-empty and is exactly the key set of its host-to-node mapping,
\* the hosts used for all later operations are that list, and the "host has
\* no saved info" error of getNodeInfoForScrutinize is never returned; the
\* final tarball is made only after the Engine run of the scrutinize
\* instructions returned success.
C38_ScrutinizeHostsAreVdbKeys ==
    /\ scrGotVdb =>
          /\ scrVdbHostList # <<>>
          /\ Range(scrVdbHostList) = DOMAIN scrVdbHostNodeMap
          /\ Len(scrVdbHostList) = Cardinality(DOMAIN scrVdbHostNodeMap)
          /\ scrHosts = scrVdbHostList
    /\ ScrutinizeProduced => scrInstrHosts = scrVdbHostList
    /\ ~scrNoSavedInfo
    /\ scrTarball => scrRan /\ scrRunErr = Nil

\* a scrutinize of fewer hosts than the user gave made its tarball
C38_Witness ==
    /\ scrPc = "returned"
    /\ scrTarball
    /\ Len(scrVdbHostList) < Len(scrInputHosts)
    /\ scrInstrHosts = scrVdbHostList
    /\ scrReturn = Nil

DispatchInFlight == sendPc \in {"launch", "collect"}

\* C39: a progressCheck goroutine is started only by a dispatch of a pool
\* whose logger is for the CLI, and a progress line is emitted only while
\* the dispatch is in flight and its context is live: none once sendRequest
\* has returned and cancelled the context.
C39_NoProgressLineAfterReturn ==
    [][/\ tickerRunning' > tickerRunning => ForCli /\ sendPc = "build"
       /\ ticksPrinted' # ticksPrinted =>
             DispatchInFlight /\ tickerRunning > 0]_vars

====
